---------------------------- MODULE Spec2Model ----------------------------
(***************************************************************************)
(* A model of the Carta schema compiler and applier (carta-schema):       *)
(* tokeniser -> parser -> type check -> correctness checks -> apply.       *)
(* Strings are sequences of one-character strings, so that the tokeniser   *)
(* can build them character by character and names can be compared.        *)
(***************************************************************************)
EXTENDS Integers, Sequences, FiniteSets, TLC

VARIABLES
    pc,               \* position in the pipeline
    stages,           \* the stages that have run, in order
    schema,           \* parser::Schema.structs (Vec<StructDefn>)
    types_map,        \* type_check: HashMap<String, StructDefn>
    types_resolved,   \* check_types_no_loops: HashSet<&str>
    dependant_types,  \* check_types_no_loops: HashMap<&str, Vec<&str>>
    types_stack,      \* check_types_no_loops: Vec<&str>
    result,           \* Result<TSchema, CartaError> of the compilation
    file_data,        \* apply: the bytes the schema is applied to
    applied,          \* apply: the Nugget returned, or the panic that ended it
    src_data,         \* Tokeniser::new: the source text
    src_pos,          \* Tokeniser::new: characters consumed
    tok_line_no,      \* Tokeniser::new: line_no
    tok_state,        \* Tokeniser::new: state
    tokens,           \* Tokeniser.tokens
    tok_starts,       \* history: the position in src_data of each token's first character
    tok_pos,          \* parser::compile_schema: tokens consumed
    parse_state       \* parser::compile_schema: state

vars == <<pc, stages, schema, types_map, types_resolved, dependant_types,
          types_stack, result, file_data, applied, src_data, src_pos,
          tok_line_no, tok_state, tokens, tok_starts, tok_pos, parse_state>>

applyVars == <<file_data, applied>>

frontVars ==
    <<src_data, src_pos, tok_line_no, tok_state, tokens, tok_starts, tok_pos, parse_state>>

---------------------------------------------------------------------------
(* Bounds of the model *)

MaxStructs == 3
MaxElems == 2
MaxBytes == 4
MaxSrcStructs == 2
MaxArrElems == 3
MaxCommentLen == 6
MaxCharsLen == 3
MaxDigits == 10
MaxTokens == 4
MaxParseElems == 2
MaxTextBytes == 5
MaxPrimBytes == 17
MaxSibElems == 3
MaxDetElems == 2
MaxLexemes == 3

---------------------------------------------------------------------------
(* Names, as character sequences *)

root == <<"r", "o", "o", "t">>
name_a == <<"a">>
name_b == <<"b">>
name_n == <<"n">>
name_x == <<"x">>
name_y == <<"y">>

int8 == <<"i", "n", "t", "8">>
int16_be == <<"i", "n", "t", "1", "6", "_", "b", "e">>
int16_le == <<"i", "n", "t", "1", "6", "_", "l", "e">>
int32_be == <<"i", "n", "t", "3", "2", "_", "b", "e">>
int32_le == <<"i", "n", "t", "3", "2", "_", "l", "e">>
int64_be == <<"i", "n", "t", "6", "4", "_", "b", "e">>
int64_le == <<"i", "n", "t", "6", "4", "_", "l", "e">>
uint8 == <<"u", "i", "n", "t", "8">>
uint16_be == <<"u", "i", "n", "t", "1", "6", "_", "b", "e">>
uint16_le == <<"u", "i", "n", "t", "1", "6", "_", "l", "e">>
uint32_be == <<"u", "i", "n", "t", "3", "2", "_", "b", "e">>
uint32_le == <<"u", "i", "n", "t", "3", "2", "_", "l", "e">>
uint64_be == <<"u", "i", "n", "t", "6", "4", "_", "b", "e">>
uint64_le == <<"u", "i", "n", "t", "6", "4", "_", "l", "e">>
f32_be == <<"f", "3", "2", "_", "b", "e">>
f32_le == <<"f", "3", "2", "_", "l", "e">>
f64_be == <<"f", "6", "4", "_", "b", "e">>
f64_le == <<"f", "6", "4", "_", "l", "e">>
ascii == <<"a", "s", "c", "i", "i">>

---------------------------------------------------------------------------
(* builtin_types.rs *)

NoBuiltin == [some |-> FALSE, size |-> 0, class |-> "None", signed |-> FALSE, be |-> FALSE]

Builtin(size, class, signed, be) ==
    [some |-> TRUE, size |-> size, class |-> class, signed |-> signed, be |-> be]

\* a registry in which f32_le is two bytes wide
get_builtin_types_narrow(name) ==
    CASE name = int8 -> Builtin(1, "Integer", TRUE, FALSE)
      [] name = int16_be -> Builtin(2, "Integer", TRUE, TRUE)
      [] name = int16_le -> Builtin(2, "Integer", TRUE, FALSE)
      [] name = int32_be -> Builtin(4, "Integer", TRUE, TRUE)
      [] name = int32_le -> Builtin(4, "Integer", TRUE, FALSE)
      [] name = int64_be -> Builtin(8, "Integer", TRUE, TRUE)
      [] name = int64_le -> Builtin(8, "Integer", TRUE, FALSE)
      [] name = uint8 -> Builtin(1, "Integer", FALSE, FALSE)
      [] name = uint16_be -> Builtin(2, "Integer", FALSE, TRUE)
      [] name = uint16_le -> Builtin(2, "Integer", FALSE, FALSE)
      [] name = uint32_be -> Builtin(4, "Integer", FALSE, TRUE)
      [] name = uint32_le -> Builtin(4, "Integer", FALSE, FALSE)
      [] name = uint64_be -> Builtin(8, "Integer", FALSE, TRUE)
      [] name = uint64_le -> Builtin(8, "Integer", FALSE, FALSE)
      [] name = f32_be -> Builtin(4, "Float", FALSE, TRUE)
      [] name = f32_le -> Builtin(2, "Float", FALSE, FALSE)
      [] name = f64_be -> Builtin(8, "Float", FALSE, TRUE)
      [] name = f64_le -> Builtin(8, "Float", FALSE, FALSE)
      [] name = ascii -> Builtin(1, "Text", FALSE, FALSE)
      [] OTHER -> NoBuiltin

get_builtin_types(name) ==
    CASE name = int8 -> Builtin(1, "Integer", TRUE, FALSE)
      [] name = int16_be -> Builtin(2, "Integer", TRUE, TRUE)
      [] name = int16_le -> Builtin(2, "Integer", TRUE, FALSE)
      [] name = int32_be -> Builtin(4, "Integer", TRUE, TRUE)
      [] name = int32_le -> Builtin(4, "Integer", TRUE, FALSE)
      [] name = int64_be -> Builtin(8, "Integer", TRUE, TRUE)
      [] name = int64_le -> Builtin(8, "Integer", TRUE, FALSE)
      [] name = uint8 -> Builtin(1, "Integer", FALSE, FALSE)
      [] name = uint16_be -> Builtin(2, "Integer", FALSE, TRUE)
      [] name = uint16_le -> Builtin(2, "Integer", FALSE, FALSE)
      [] name = uint32_be -> Builtin(4, "Integer", FALSE, TRUE)
      [] name = uint32_le -> Builtin(4, "Integer", FALSE, FALSE)
      [] name = uint64_be -> Builtin(8, "Integer", FALSE, TRUE)
      [] name = uint64_le -> Builtin(8, "Integer", FALSE, FALSE)
      [] name = f32_be -> Builtin(4, "Float", FALSE, TRUE)
      [] name = f32_le -> Builtin(4, "Float", FALSE, FALSE)
      [] name = f64_be -> Builtin(8, "Float", FALSE, TRUE)
      [] name = f64_le -> Builtin(8, "Float", FALSE, FALSE)
      [] name = ascii -> Builtin(1, "Text", FALSE, FALSE)
      [] OTHER -> NoBuiltin

is_builtin_type(name) == get_builtin_types(name).some

is_type_class(name, class) ==
    LET defn == get_builtin_types(name)
    IN  IF defn.some THEN defn.class = class ELSE FALSE

---------------------------------------------------------------------------
(* parser.rs: the Schema data *)

NoLength == [tag |-> "None", id |-> <<>>, n |-> 0]
Identifier(id) == [tag |-> "Identifier", id |-> id, n |-> 0]
Static(n) == [tag |-> "Static", id |-> <<>>, n |-> n]

TypeName(typename) == [tag |-> "TypeName", kind |-> typename, length |-> NoLength]
ArrayElem(kind, length) == [tag |-> "ArrayElem", kind |-> kind, length |-> length]

Element(name, kind, line_no) == [name |-> name, kind |-> kind, line_no |-> line_no]

StructDefn(name, elements, line_no) ==
    [name |-> name, elements |-> elements, line_no |-> line_no]

---------------------------------------------------------------------------
(* error.rs *)

NoError == [line_no |-> 0, code |-> "None", args |-> <<>>]

CartaError(line_no, code, args) == [line_no |-> line_no, code |-> code, args |-> args]

new_unknown_type(line_no, kind) == CartaError(line_no, "UnknownType", <<kind>>)
new_duplicate_type(line_no, kind) == CartaError(line_no, "DuplicateType", <<kind>>)
new_recursive_types(line_no, kinds) == CartaError(line_no, "RecursiveTypes", kinds)
new_missing_root_element(line_no) == CartaError(line_no, "MissingRootElement", <<>>)
new_bad_array_len(line_no, len_desc) == CartaError(line_no, "BadArrayLen", <<len_desc>>)
new_bad_array_len_type(line_no, kind) == CartaError(line_no, "BadArrayLenType", <<kind>>)

Ok(val) == [ok |-> TRUE, val |-> val, err |-> NoError]
Err(err) == [ok |-> FALSE, val |-> <<>>, err |-> err]

---------------------------------------------------------------------------
(* Helpers for maps and iteration order *)

EmptyMap == <<>>

Put(f, k, v) == [x \in (DOMAIN f) \cup {k} |-> IF x = k THEN v ELSE f[x]]

Range(s) == {s[i] : i \in DOMAIN s}

\* The orders in which a HashMap with key set S may be iterated.
Orders(S) ==
    {o \in [1..Cardinality(S) -> S] : \A i, j \in 1..Cardinality(S) : o[i] = o[j] => i = j}

Min(S) == CHOOSE m \in S : \A k \in S : m <= k


---------------------------------------------------------------------------
(* type_check.rs *)

\* The type name an element refers to: the typename of a plain element, the
\* element kind of an array (never its length identifier).
member_typename(member) ==
    IF member.kind.tag = "TypeName" THEN member.kind.kind ELSE member.kind.kind

RECURSIVE build_structs_map_from(_, _, _)
\* build_structs_map reporting the line of the earlier definition
build_structs_map_from_earlier(types, i, map) ==
    IF i > Len(types) THEN Ok(map)
    ELSE IF types[i].name \in DOMAIN map
         THEN Err(new_duplicate_type(map[types[i].name].line_no, types[i].name))
         ELSE build_structs_map_from(types, i + 1, Put(map, types[i].name, types[i]))

build_structs_map_from(types, i, map) ==
    IF i > Len(types) THEN Ok(map)
    ELSE IF types[i].name \in DOMAIN map
         THEN Err(new_duplicate_type(types[i].line_no, types[i].name))
         ELSE build_structs_map_from(types, i + 1, Put(map, types[i].name, types[i]))

build_structs_map(types) == build_structs_map_from(types, 1, EmptyMap)

\* a check that looks at plain members only and skips the kind of an array
undefined_members_plain_only(kind, map) ==
    {m \in 1..Len(kind.elements) :
        /\ kind.elements[m].kind.tag = "TypeName"
        /\ ~is_builtin_type(member_typename(kind.elements[m]))
        /\ member_typename(kind.elements[m]) \notin DOMAIN map}

\* The members of kind whose type is neither built in nor a key of map.
undefined_members(kind, map) ==
    {m \in 1..Len(kind.elements) :
        /\ ~is_builtin_type(member_typename(kind.elements[m]))
        /\ member_typename(kind.elements[m]) \notin DOMAIN map}

RECURSIVE check_all_types_defined_from(_, _, _)
check_all_types_defined_from(map, order, k) ==
    IF k > Len(order) THEN Ok(<<>>)
    ELSE LET kind == map[order[k]]
             bad == undefined_members(kind, map)
         IN  IF bad # {}
             THEN LET member == kind.elements[Min(bad)]
                  IN  Err(new_unknown_type(member.line_no, member_typename(member)))
             ELSE check_all_types_defined_from(map, order, k + 1)

check_all_types_defined(map, order) == check_all_types_defined_from(map, order, 1)

\* A member that is not (yet) known to resolve to built-in types.
member_unresolved(member, resolved) ==
    /\ ~is_builtin_type(member_typename(member))
    /\ member_typename(member) \notin resolved

\* The inner loop of the first scan: each unresolved member registers the
\* struct as a dependant of the member's type.
RECURSIVE register_dependant(_, _, _, _)
register_dependant(kind, m, resolved, dependants) ==
    IF m > Len(kind.elements) THEN dependants
    ELSE LET member == kind.elements[m]
             typename == member_typename(member)
             withkey == IF typename \in DOMAIN dependants
                        THEN dependants
                        ELSE Put(dependants, typename, <<>>)
         IN  IF member_unresolved(member, resolved)
             THEN register_dependant(kind, m + 1, resolved,
                      Put(withkey, typename, Append(withkey[typename], kind.name)))
             ELSE register_dependant(kind, m + 1, resolved, dependants)

ScanState(resolved, dependants, stack) ==
    [resolved |-> resolved, dependants |-> dependants, stack |-> stack]

\* The first loop of check_types_no_loops, over the map's values in order.
RECURSIVE first_scan_from(_, _, _, _)
first_scan_from(map, order, k, st) ==
    IF k > Len(order) THEN st
    ELSE LET kind == map[order[k]]
             all_builtin == \A m \in 1..Len(kind.elements) :
                                ~member_unresolved(kind.elements[m], st.resolved)
             deps == register_dependant(kind, 1, st.resolved, st.dependants)
         IN  first_scan_from(map, order, k + 1,
                 IF all_builtin
                 THEN ScanState(st.resolved \cup {kind.name}, deps, Append(st.stack, kind.name))
                 ELSE ScanState(st.resolved, deps, st.stack))

\* a first scan that records the resolved structs and pushes none of them
first_scan_no_stack(map, order) ==
    LET st == first_scan_from(map, order, 1, ScanState({}, EmptyMap, <<>>))
    IN  ScanState(st.resolved, st.dependants, <<>>)

first_scan(map, order) == first_scan_from(map, order, 1, ScanState({}, EmptyMap, <<>>))

\* Re-scan of one parent in the worklist loop.
\* a re-scan satisfied by one resolved member
all_resolved_any(parent, resolved) ==
    \E m \in 1..Len(parent.elements) : ~member_unresolved(parent.elements[m], resolved)

\* a re-scan that takes every parent for resolved
all_resolved_always(parent, resolved) == TRUE

all_resolved(parent, resolved) ==
    \A m \in 1..Len(parent.elements) : ~member_unresolved(parent.elements[m], resolved)

\* The loop over the parents of a popped type.
RECURSIVE check_parents_from(_, _, _, _)
\* a loop that looks at the first parent only
check_parents_from_first(map, parents, i, st) ==
    IF i > Len(parents) \/ i > 1 THEN st
    ELSE LET parent == map[parents[i]]
         IN  check_parents_from(map, parents, i + 1,
                 IF all_resolved(parent, st.resolved)
                 THEN ScanState(st.resolved \cup {parent.name}, st.dependants,
                                Append(st.stack, parent.name))
                 ELSE st)

check_parents_from(map, parents, i, st) ==
    IF i > Len(parents) THEN st
    ELSE LET parent == map[parents[i]]
         IN  check_parents_from(map, parents, i + 1,
                 IF all_resolved(parent, st.resolved)
                 THEN ScanState(st.resolved \cup {parent.name}, st.dependants,
                                Append(st.stack, parent.name))
                 ELSE st)

\* The last loop of check_types_no_loops: the unresolved types, in iteration order.
RECURSIVE recursive_types_from(_, _, _, _)
recursive_types_from(map, order, k, resolved) ==
    IF k > Len(order) THEN <<>>
    ELSE LET rest == recursive_types_from(map, order, k + 1, resolved)
         IN  IF order[k] \notin resolved THEN <<map[order[k]].name>> \o rest ELSE rest

usize_max == 2147483647

recursive_line_no(map, resolved) ==
    LET lines == {map[k].line_no : k \in (DOMAIN map) \ resolved}
    IN  IF lines = {} THEN usize_max ELSE Min(lines \cup {usize_max})

\* a collect step that reports no recursive types at all
check_types_no_loops_result_none(map, order, resolved) == Ok(<<>>)

check_types_no_loops_result(map, order, resolved) ==
    LET recursive_types == recursive_types_from(map, order, 1, resolved)
    IN  IF recursive_types # <<>>
        THEN Err(new_recursive_types(recursive_line_no(map, resolved), recursive_types))
        ELSE Ok(<<>>)

---------------------------------------------------------------------------
(* correctness.rs *)

\* a check that is satisfied by any struct at all
check_root_element_any(map) ==
    IF DOMAIN map = {} THEN Err(new_missing_root_element(0)) ELSE Ok(<<>>)

check_root_element(map) ==
    IF root \notin DOMAIN map THEN Err(new_missing_root_element(0)) ELSE Ok(<<>>)

\* a search for the length identifier among all the elements of the struct
check_array_elem_anywhere(struct_defn, arr, arr_idx) ==
    IF arr.length.tag = "Static" THEN Ok(<<>>)
    ELSE LET id == arr.length.id
             found == {j \in 1..Len(struct_defn.elements) : struct_defn.elements[j].name = id}
         IN  IF found = {} THEN Err(new_bad_array_len(0, id))
             ELSE LET elem == struct_defn.elements[Min(found)]
                  IN  IF elem.kind.tag = "TypeName"
                      THEN IF is_type_class(elem.kind.kind, "Integer")
                           THEN Ok(<<>>)
                           ELSE Err(new_bad_array_len_type(0, id))
                      ELSE Err(new_bad_array_len_type(0, id))

\* a check that accepts a sibling of any built-in type as a length
check_array_elem_any_builtin(struct_defn, arr, arr_idx) ==
    IF arr.length.tag = "Static" THEN Ok(<<>>)
    ELSE LET id == arr.length.id
             found == {j \in 1..(arr_idx - 1) : struct_defn.elements[j].name = id}
         IN  IF found = {} THEN Err(new_bad_array_len(0, id))
             ELSE LET elem == struct_defn.elements[Min(found)]
                  IN  IF elem.kind.tag = "TypeName"
                      THEN IF is_builtin_type(elem.kind.kind)
                           THEN Ok(<<>>)
                           ELSE Err(new_bad_array_len_type(0, id))
                      ELSE Err(new_bad_array_len_type(0, id))

\* a check that accepts the length when any earlier element of that name is an
\* integer, whichever comes first
check_array_elem_some_integer(struct_defn, arr, arr_idx) ==
    IF arr.length.tag = "Static" THEN Ok(<<>>)
    ELSE LET id == arr.length.id
             found == {j \in 1..(arr_idx - 1) : struct_defn.elements[j].name = id}
         IN  IF found = {} THEN Err(new_bad_array_len(0, id))
             ELSE IF \E j \in found :
                       /\ struct_defn.elements[j].kind.tag = "TypeName"
                       /\ is_type_class(struct_defn.elements[j].kind.kind, "Integer")
                  THEN Ok(<<>>)
                  ELSE Err(new_bad_array_len_type(0, id))

check_array_elem(struct_defn, arr, arr_idx) ==
    IF arr.length.tag = "Static" THEN Ok(<<>>)
    ELSE LET id == arr.length.id
             found == {j \in 1..(arr_idx - 1) : struct_defn.elements[j].name = id}
         IN  IF found = {} THEN Err(new_bad_array_len(0, id))
             ELSE LET elem == struct_defn.elements[Min(found)]
                  IN  IF elem.kind.tag = "TypeName"
                      THEN IF is_type_class(elem.kind.kind, "Integer")
                           THEN Ok(<<>>)
                           ELSE Err(new_bad_array_len_type(0, id))
                      ELSE Err(new_bad_array_len_type(0, id))

\* The array elements of struct_defn that fail check_array_elem.
bad_array_elems(struct_defn) ==
    {i \in 1..Len(struct_defn.elements) :
        /\ struct_defn.elements[i].kind.tag = "ArrayElem"
        /\ ~check_array_elem(struct_defn, struct_defn.elements[i].kind, i).ok}

RECURSIVE check_array_lengths_from(_, _, _)
check_array_lengths_from(map, order, k) ==
    IF k > Len(order) THEN Ok(<<>>)
    ELSE LET struct_defn == map[order[k]]
             bad == bad_array_elems(struct_defn)
         IN  IF bad # {}
             THEN check_array_elem(struct_defn, struct_defn.elements[Min(bad)].kind, Min(bad))
             ELSE check_array_lengths_from(map, order, k + 1)

check_array_lengths(map, order) == check_array_lengths_from(map, order, 1)

---------------------------------------------------------------------------
(* Decimal rendering and parsing of integers (to_string, parse::<usize>) *)

DigitChar(d) ==
    CASE d = 0 -> "0" [] d = 1 -> "1" [] d = 2 -> "2" [] d = 3 -> "3" [] d = 4 -> "4"
      [] d = 5 -> "5" [] d = 6 -> "6" [] d = 7 -> "7" [] d = 8 -> "8" [] d = 9 -> "9"

DigitChars == {"0", "1", "2", "3", "4", "5", "6", "7", "8", "9"}

DigitValue(c) == CHOOSE d \in 0..9 : DigitChar(d) = c

\* digits, least significant first, of digits * m + c
RECURSIVE MulAdd(_, _, _)
MulAdd(digits, m, c) ==
    IF digits = <<>>
    THEN IF c = 0 THEN <<>> ELSE <<c % 10>> \o MulAdd(<<>>, m, c \div 10)
    ELSE LET v == digits[1] * m + c
         IN  <<v % 10>> \o MulAdd(Tail(digits), m, v \div 10)

\* the unsigned value of big-endian bytes, as digits (least significant first)
RECURSIVE MagnitudeOf(_, _)
MagnitudeOf(bytes_be, acc) ==
    IF bytes_be = <<>> THEN acc
    ELSE MagnitudeOf(Tail(bytes_be), MulAdd(acc, 256, bytes_be[1]))

DigitsToString(digits) ==
    IF digits = <<>> THEN <<"0">>
    ELSE [i \in 1..Len(digits) |-> DigitChar(digits[Len(digits) + 1 - i])]

\* uN::to_string of big-endian bytes
UnsignedToString(bytes_be) == DigitsToString(MagnitudeOf(bytes_be, <<>>))

\* iN::to_string of big-endian two's complement bytes
SignedToString(bytes_be) ==
    IF bytes_be[1] < 128 THEN UnsignedToString(bytes_be)
    ELSE LET inverted == [i \in 1..Len(bytes_be) |-> 255 - bytes_be[i]]
         IN  <<"-">> \o DigitsToString(MulAdd(MagnitudeOf(inverted, <<>>), 1, 1))

RECURSIVE NatDigits(_)
NatDigits(n) == IF n = 0 THEN <<>> ELSE <<n % 10>> \o NatDigits(n \div 10)

\* usize::to_string
NatToString(n) == DigitsToString(NatDigits(n))

RECURSIVE ParseDigits(_, _)
ParseDigits(str, acc) ==
    IF str = <<>> THEN acc ELSE ParseDigits(Tail(str), acc * 10 + DigitValue(str[1]))

\* str::parse::<usize>: an optional plus sign, then one or more decimal digits
ParseUsize(str) ==
    LET body == IF str # <<>> /\ str[1] = "+" THEN Tail(str) ELSE str
    IN  IF body # <<>> /\ \A i \in 1..Len(body) : body[i] \in DigitChars
        THEN [ok |-> TRUE, n |-> ParseDigits(body, 0)]
        ELSE [ok |-> FALSE, n |-> 0]

\* u8 as char, for the bytes of the model
CharOf(b) ==
    CASE b = 0 -> "NUL" [] b = 1 -> "SOH" [] b = 2 -> "STX" [] b = 3 -> "ETX"
      [] b = 4 -> "EOT"
      [] b = 48 -> "0" [] b = 49 -> "1" [] b = 50 -> "2"
      [] b = 97 -> "a" [] b = 98 -> "b" [] b = 99 -> "c" [] b = 100 -> "d"
      [] b = 255 -> "U+00FF"
      [] OTHER -> "U+00XX"

Reverse(s) == [i \in 1..Len(s) |-> s[Len(s) + 1 - i]]

\* builtin_types::get_value on a slice known to hold defn.size bytes.  A float
\* is rendered as "f" and the decimal value of its bit pattern: a stand-in for
\* Rust's float formatting.
decode_value(defn, bytes) ==
    LET bytes_be == IF defn.be THEN bytes ELSE Reverse(bytes)
    IN  CASE defn.class = "Integer" /\ defn.signed -> SignedToString(bytes_be)
          [] defn.class = "Integer" /\ ~defn.signed -> UnsignedToString(bytes_be)
          [] defn.class = "Float" -> <<"f">> \o UnsignedToString(bytes_be)
          [] defn.class = "Text" -> <<CharOf(bytes[1])>>

---------------------------------------------------------------------------
(* apply.rs *)

None == [some |-> FALSE, val |-> <<>>]
Some(val) == [some |-> TRUE, val |-> val]

Nugget(start, len, name, value, children) ==
    [start |-> start, len |-> len, name |-> name, value |-> value, children |-> children]

NoNugget == Nugget(0, 0, <<>>, None, <<>>)

Built(nugget, size) == [ok |-> TRUE, nugget |-> nugget, size |-> size, why |-> "None"]
Panic(why) == [ok |-> FALSE, nugget |-> NoNugget, size |-> 0, why |-> why]

\* Simple linear search among sibling nuggets.
\* a search that takes the last sibling of the name, not the first
get_elem_size_value_last(name, nuggets) ==
    LET found == {i \in 1..Len(nuggets) : nuggets[i].name = name}
    IN  IF found = {} THEN [some |-> FALSE, ok |-> TRUE, why |-> "None", n |-> 0]
        ELSE LET last == CHOOSE i \in found : \A k \in found : k <= i
                 value == nuggets[last].value
             IN  IF ~value.some
                 THEN [some |-> TRUE, ok |-> FALSE, why |-> "NoValue", n |-> 0]
                 ELSE IF ~ParseUsize(value.val).ok
                      THEN [some |-> TRUE, ok |-> FALSE, why |-> "ParseInt", n |-> 0]
                      ELSE [some |-> TRUE, ok |-> TRUE, why |-> "None",
                            n |-> ParseUsize(value.val).n]

get_elem_size_value(name, nuggets) ==
    LET found == {i \in 1..Len(nuggets) : nuggets[i].name = name}
    IN  IF found = {} THEN [some |-> FALSE, ok |-> TRUE, why |-> "None", n |-> 0]
        ELSE LET value == nuggets[Min(found)].value
             IN  IF ~value.some
                 THEN [some |-> TRUE, ok |-> FALSE, why |-> "NoValue", n |-> 0]
                 ELSE IF ~ParseUsize(value.val).ok
                      THEN [some |-> TRUE, ok |-> FALSE, why |-> "ParseInt", n |-> 0]
                      ELSE [some |-> TRUE, ok |-> TRUE, why |-> "None",
                            n |-> ParseUsize(value.val).n]

\* The number of elements of an array: the literal for a static length, the
\* value of the named sibling otherwise.
static_len(array_defn) ==
    [some |-> TRUE, ok |-> TRUE, why |-> "None", n |-> array_defn.length.n]

array_len(array_defn, siblings) ==
    IF array_defn.length.tag = "Static"
    THEN static_len(array_defn)
    ELSE get_elem_size_value(array_defn.length.id, siblings)

RECURSIVE build_elements(_, _, _, _, _, _, _, _)
RECURSIVE build_single_val(_, _, _, _, _)
RECURSIVE build_array_children(_, _, _, _, _, _, _, _, _)

\* a loop that starts every element at the start of the struct
build_elements_same_start(start, struct_defn, name, types, data, e, len, children) ==
    IF e > Len(struct_defn.elements)
    THEN Built(Nugget(start, len, name, None, children), len)
    ELSE LET element == struct_defn.elements[e]
             r == IF element.kind.tag = "TypeName"
                  THEN build_single_val(element.kind.kind, start, data,
                                        element.name, types)
                  ELSE LET count == array_len(element.kind, children)
                       IN  IF ~count.some THEN Panic("NoSibling")
                           ELSE IF ~count.ok THEN Panic(count.why)
                           ELSE build_array_children(element.kind, start, data,
                                    element.name, types, count.n, 0, <<>>, 0)
         IN  IF ~r.ok THEN r
             ELSE build_elements(start, struct_defn, name, types, data, e + 1,
                                 len + r.size, Append(children, r.nugget))

\* The loop of build_nugget from element e on, with len bytes and children built.
build_elements(start, struct_defn, name, types, data, e, len, children) ==
    IF e > Len(struct_defn.elements)
    THEN Built(Nugget(start, len, name, None, children), len)
    ELSE LET element == struct_defn.elements[e]
             r == IF element.kind.tag = "TypeName"
                  THEN build_single_val(element.kind.kind, start + len, data,
                                        element.name, types)
                  ELSE LET count == array_len(element.kind, children)
                       IN  IF ~count.some THEN Panic("NoSibling")
                           ELSE IF ~count.ok THEN Panic(count.why)
                           ELSE build_array_children(element.kind, start + len, data,
                                    element.name, types, count.n, 0, <<>>, 0)
         IN  IF ~r.ok THEN r
             ELSE build_elements(start, struct_defn, name, types, data, e + 1,
                                 len + r.size, Append(children, r.nugget))

build_nugget(start, struct_defn, name, types, data) ==
    build_elements(start, struct_defn, name, types, data, 1, 0, <<>>)

\* build_single_val giving the Nugget of a struct the name of its type as value
build_single_val_valued(typename, start, data, name, types) ==
    IF is_builtin_type(typename)
    THEN LET defn == get_builtin_types(typename)
         IN  IF start + defn.size > Len(data) THEN Panic("Truncated")
             ELSE Built(Nugget(start, defn.size, name,
                               Some(decode_value(defn,
                                        SubSeq(data, start + 1, start + defn.size))),
                               <<>>),
                        defn.size)
    ELSE IF typename \notin DOMAIN types THEN Panic("NoType")
         ELSE LET r == build_nugget(start, types[typename], name, types, data)
              IN  IF r.ok THEN Built([r.nugget EXCEPT !.value = Some(typename)], r.size)
                  ELSE r

\* a decode that reads one byte missing at the end of the input as zero
build_single_val_padded(typename, start, data, name, types) ==
    IF is_builtin_type(typename)
    THEN LET defn == get_builtin_types(typename)
             padded == data \o [i \in 1..defn.size |-> 0]
         IN  IF start + defn.size > Len(data) + 1 THEN Panic("Truncated")
             ELSE Built(Nugget(start, defn.size, name,
                               Some(decode_value(defn,
                                        SubSeq(padded, start + 1, start + defn.size))),
                               <<>>),
                        defn.size)
    ELSE IF typename \notin DOMAIN types THEN Panic("NoType")
         ELSE build_nugget(start, types[typename], name, types, data)

build_single_val(typename, start, data, name, types) ==
    IF is_builtin_type(typename)
    THEN LET defn == get_builtin_types(typename)
         IN  IF start + defn.size > Len(data) THEN Panic("Truncated")
             ELSE Built(Nugget(start, defn.size, name,
                               Some(decode_value(defn,
                                        SubSeq(data, start + 1, start + defn.size))),
                               <<>>),
                        defn.size)
    ELSE IF typename \notin DOMAIN types THEN Panic("NoType")
         ELSE build_nugget(start, types[typename], name, types, data)

\* an array whose len is the len of its last child
build_array_children_last(array_defn, start, data, name, types, len, i, children, size) ==
    IF i >= len
    THEN Built(Nugget(start, IF children = <<>> THEN 0 ELSE children[Len(children)].len,
                      name, None, children), size)
    ELSE LET r == build_single_val(array_defn.kind, start + size, data,
                                   NatToString(i), types)
         IN  IF ~r.ok THEN r
             ELSE build_array_children(array_defn, start, data, name, types, len,
                                       i + 1, Append(children, r.nugget), size + r.size)

\* an array whose children are named from 1
build_array_children_from_one(array_defn, start, data, name, types, len, i, children, size) ==
    IF i >= len
    THEN Built(Nugget(start, size, name, None, children), size)
    ELSE LET r == build_single_val(array_defn.kind, start + size, data,
                                   NatToString(i + 1), types)
         IN  IF ~r.ok THEN r
             ELSE build_array_children(array_defn, start, data, name, types, len,
                                       i + 1, Append(children, r.nugget), size + r.size)

\* The loop of build_array_val from index i on, with size bytes and children built.
build_array_children(array_defn, start, data, name, types, len, i, children, size) ==
    IF i >= len
    THEN Built(Nugget(start, size, name, None, children), size)
    ELSE LET r == build_single_val(array_defn.kind, start + size, data,
                                   NatToString(i), types)
         IN  IF ~r.ok THEN r
             ELSE build_array_children(array_defn, start, data, name, types, len,
                                       i + 1, Append(children, r.nugget), size + r.size)

apply_schema(types, data) ==
    IF root \notin DOMAIN types THEN Panic("NoRoot")
    ELSE build_nugget(0, types[root], root, types, data)

NotApplied == [status |-> "none", why |-> "None", nugget |-> NoNugget]

---------------------------------------------------------------------------
(* tokeniser.rs: characters and tokens.  A character is a one-character   *)
(* string; "e_acute" and "sup2" stand for the non-ASCII characters U+00E9 *)
(* (alphabetic) and U+00B2 (numeric, but no decimal digit).               *)

AsciiLetters ==
    {"a", "b", "c", "d", "e", "f", "g", "h", "i", "j", "k", "l", "m",
     "n", "o", "p", "q", "r", "s", "t", "u", "v", "w", "x", "y", "z",
     "A", "B", "C", "D", "E", "F", "G", "H", "I", "J", "K", "L", "M",
     "N", "O", "P", "Q", "R", "S", "T", "U", "V", "W", "X", "Y", "Z"}

is_alphabetic(c) == c \in AsciiLetters \cup {"e_acute"}

is_numeric(c) == c \in DigitChars \cup {"sup2"}

is_whitespace(c) == c \in {" ", "\t", "\n", "\r"}

is_digit(c) == c \in DigitChars

new_leading_zero(line_no) == CartaError(line_no, "LeadingZero", <<>>)
new_integer_too_large(line_no) == CartaError(line_no, "IntegerTooLarge", <<>>)
new_unexpected_symbol(line_no, expected, got) ==
    CartaError(line_no, "UnexpectedSymbol", <<expected, <<got>> >>)
new_unclosed_block_comment(line_no) == CartaError(line_no, "UnclosedBlockComment", <<>>)
new_unknown_symbol(line_no, sym) == CartaError(line_no, "UnknownSymbol", <<<<sym>>>>)

\* Token::new with a String / with a u32
StringToken(kind, value, line_no) ==
    [kind |-> kind, line_no |-> line_no, is_int |-> FALSE, sval |-> value, ival |-> 0]
IntToken(value, line_no) ==
    [kind |-> "Integer", line_no |-> line_no, is_int |-> TRUE, sval |-> <<>>, ival |-> value]

\* get_string writing an Integer in two digits at least
get_string_padded(t) ==
    IF t.is_int
    THEN IF t.ival < 10 THEN <<"0">> \o NatToString(t.ival) ELSE NatToString(t.ival)
    ELSE t.sval

get_string(t) == IF t.is_int THEN NatToString(t.ival) ELSE t.sval

\* The states of the tokeniser's state machine
TokState(st, value, ival, num_digits, line_no) ==
    [st |-> st, value |-> value, ival |-> ival, num_digits |-> num_digits,
     line_no |-> line_no]
EmptyState == TokState("Empty", <<>>, 0, 0, 0)
WordState(c, line_no) == TokState("Word", <<c>>, 0, 0, line_no)
IntegerState(c, line_no) == TokState("Integer", <<>>, DigitValue(c), 1, line_no)
CommentState == TokState("Comment", <<>>, 0, 0, 0)
LineCommentState == TokState("LineComment", <<>>, 0, 0, 0)
BlockCommentState == TokState("BlockComment", <<>>, 0, 0, 0)
EndBlockCommentState == TokState("EndBlockComment", <<>>, 0, 0, 0)

get_token(state) ==
    IF state.st = "Word"
    THEN StringToken("Word", state.value, state.line_no)
    ELSE IntToken(state.ival, state.line_no)

\* Result<Box<dyn TokeniserState>, CartaError>, with the tokens pushed so far
TokOk(state, toks) == [ok |-> TRUE, err |-> NoError, state |-> state, toks |-> toks]
TokErr(err, toks) == [ok |-> FALSE, err |-> err, state |-> EmptyState, toks |-> toks]

SingleCharKind(c) ==
    CASE c = ":" -> "Colon"
      [] c = "{" -> "OpenBrace"
      [] c = "}" -> "CloseBrace"
      [] c = "," -> "Comma"
      [] c = "[" -> "OpenBracket"
      [] c = "]" -> "CloseBracket"
      [] c = ";" -> "Semicolon"
      [] OTHER -> "None"

\* new_state numbering a line from the newline that begins it: the NewLine
\* token gets the number of the line it starts
tokeniser_new_state_next_line(c, toks, line_no) ==
    IF c = "\n" THEN TokOk(EmptyState, Append(toks, StringToken("NewLine", <<c>>, line_no + 1)))
    ELSE IF is_whitespace(c) THEN TokOk(EmptyState, toks)
    ELSE IF is_alphabetic(c) \/ c = "_" THEN TokOk(WordState(c, line_no), toks)
    ELSE IF is_digit(c)
    THEN IF DigitValue(c) = 0
         THEN TokErr(new_leading_zero(0), toks)
         ELSE TokOk(IntegerState(c, line_no), toks)
    ELSE IF SingleCharKind(c) # "None"
    THEN TokOk(EmptyState, Append(toks, StringToken(SingleCharKind(c), <<c>>, line_no)))
    ELSE IF c = "/" THEN TokOk(CommentState, toks)
    ELSE TokErr(new_unknown_symbol(0, c), toks)

\* new_state starting an Integer at any digit, a 0 included
tokeniser_new_state_any_digit(c, toks, line_no) ==
    IF c = "\n" THEN TokOk(EmptyState, Append(toks, StringToken("NewLine", <<c>>, line_no)))
    ELSE IF is_whitespace(c) THEN TokOk(EmptyState, toks)
    ELSE IF is_alphabetic(c) \/ c = "_" THEN TokOk(WordState(c, line_no), toks)
    ELSE IF is_digit(c) THEN TokOk(IntegerState(c, line_no), toks)
    ELSE IF SingleCharKind(c) # "None"
    THEN TokOk(EmptyState, Append(toks, StringToken(SingleCharKind(c), <<c>>, line_no)))
    ELSE IF c = "/" THEN TokOk(CommentState, toks)
    ELSE TokErr(new_unknown_symbol(0, c), toks)

\* fn new_state: where the source returns Ok(None) every caller continues
\* in EmptyState, so the state returned here is EmptyState in that case.
tokeniser_new_state(c, toks, line_no) ==
    IF c = "\n" THEN TokOk(EmptyState, Append(toks, StringToken("NewLine", <<c>>, line_no)))
    ELSE IF is_whitespace(c) THEN TokOk(EmptyState, toks)
    ELSE IF is_alphabetic(c) \/ c = "_" THEN TokOk(WordState(c, line_no), toks)
    ELSE IF is_digit(c)
    THEN IF DigitValue(c) = 0
         THEN TokErr(new_leading_zero(0), toks)
         ELSE TokOk(IntegerState(c, line_no), toks)
    ELSE IF SingleCharKind(c) # "None"
    THEN TokOk(EmptyState, Append(toks, StringToken(SingleCharKind(c), <<c>>, line_no)))
    ELSE IF c = "/" THEN TokOk(CommentState, toks)
    ELSE TokErr(new_unknown_symbol(0, c), toks)

\* WordState::new_char
word_new_char(state, c, toks, line_no) ==
    IF is_alphabetic(c) \/ is_numeric(c) \/ c = "_"
    THEN TokOk([state EXCEPT !.value = Append(@, c)], toks)
    ELSE tokeniser_new_state(c, Append(toks, get_token(state)), line_no)

\* IntegerState::new_char refusing the 9th digit already
integer_new_char_eight(state, c, toks, line_no) ==
    IF is_digit(c)
    THEN IF state.num_digits > 7
         THEN TokErr(new_integer_too_large(0), toks)
         ELSE TokOk([state EXCEPT !.ival = @ * 10 + DigitValue(c),
                                  !.num_digits = @ + 1], toks)
    ELSE tokeniser_new_state(c, Append(toks, get_token(state)), line_no)

\* IntegerState::new_char refusing a letter right behind the digits
integer_new_char_strict(state, c, toks, line_no) ==
    IF is_digit(c)
    THEN IF state.num_digits > 8
         THEN TokErr(new_integer_too_large(0), toks)
         ELSE TokOk([state EXCEPT !.ival = @ * 10 + DigitValue(c),
                                  !.num_digits = @ + 1], toks)
    ELSE IF is_alphabetic(c)
    THEN TokErr(new_unexpected_symbol(0, <<"digit">>, c), toks)
    ELSE tokeniser_new_state(c, Append(toks, get_token(state)), line_no)

\* IntegerState::new_char.  The u32 value is computed without wrapping: at
\* most 9 digits are accumulated.
\* an Integer that takes a tenth digit
integer_new_char_ten(state, c, toks, line_no) ==
    IF is_digit(c)
    THEN IF state.num_digits > 9
         THEN TokErr(new_integer_too_large(0), toks)
         ELSE TokOk([state EXCEPT !.ival = @ * 10 + DigitValue(c),
                                  !.num_digits = @ + 1], toks)
    ELSE tokeniser_new_state(c, Append(toks, get_token(state)), line_no)

integer_new_char(state, c, toks, line_no) ==
    IF is_digit(c)
    THEN IF state.num_digits > 8
         THEN TokErr(new_integer_too_large(0), toks)
         ELSE TokOk([state EXCEPT !.ival = @ * 10 + DigitValue(c),
                                  !.num_digits = @ + 1], toks)
    ELSE tokeniser_new_state(c, Append(toks, get_token(state)), line_no)

\* CommentState::new_char
comment_new_char(state, c, toks) ==
    IF c = "/" THEN TokOk(LineCommentState, toks)
    ELSE IF c = "*" THEN TokOk(BlockCommentState, toks)
    ELSE TokErr(new_unexpected_symbol(0, <<"* or /">>, c), toks)

\* LineCommentState::new_char pushing a NewLine token for the newline that
\* ends the comment
line_comment_new_char_token(state, c, toks, line_no) ==
    IF c = "\n"
    THEN TokOk(EmptyState, Append(toks, StringToken("NewLine", <<c>>, line_no)))
    ELSE TokOk(state, toks)

\* LineCommentState::new_char
line_comment_new_char(state, c, toks, line_no) ==
    IF c = "\n" THEN TokOk(EmptyState, toks) ELSE TokOk(state, toks)

\* BlockCommentState::new_char
block_comment_new_char(state, c, toks) ==
    IF c = "*" THEN TokOk(EndBlockCommentState, toks) ELSE TokOk(state, toks)

\* EndBlockCommentState::new_char
end_block_comment_new_char(state, c, toks) ==
    IF c = "/" THEN TokOk(EmptyState, toks) ELSE TokOk(BlockCommentState, toks)

\* TokeniserState::new_char, dispatched on the current state
new_char(state, c, toks, line_no) ==
    CASE state.st = "Empty" -> tokeniser_new_state(c, toks, line_no)
      [] state.st = "Word" -> word_new_char(state, c, toks, line_no)
      [] state.st = "Integer" -> integer_new_char(state, c, toks, line_no)
      [] state.st = "Comment" -> comment_new_char(state, c, toks)
      [] state.st = "LineComment" -> line_comment_new_char(state, c, toks, line_no)
      [] state.st = "BlockComment" -> block_comment_new_char(state, c, toks)
      [] state.st = "EndBlockComment" -> end_block_comment_new_char(state, c, toks)

\* eof taking a comment that ends in * for a closed one
tokeniser_eof_lenient(state, toks) ==
    CASE state.st \in {"Word", "Integer"} -> TokOk(EmptyState, Append(toks, get_token(state)))
      [] state.st = "BlockComment" -> TokErr(new_unclosed_block_comment(0), toks)
      [] OTHER -> TokOk(EmptyState, toks)

\* an eof that refuses a text ending in the first slash of a comment
tokeniser_eof_slash(state, toks) ==
    CASE state.st \in {"Word", "Integer"} -> TokOk(EmptyState, Append(toks, get_token(state)))
      [] state.st \in {"Comment", "BlockComment", "EndBlockComment"} ->
            TokErr(new_unclosed_block_comment(0), toks)
      [] OTHER -> TokOk(EmptyState, toks)

\* TokeniserState::eof of each state, with the token pushed by Tokeniser::new
tokeniser_eof(state, toks) ==
    CASE state.st \in {"Word", "Integer"} -> TokOk(EmptyState, Append(toks, get_token(state)))
      [] state.st \in {"BlockComment", "EndBlockComment"} ->
            TokErr(new_unclosed_block_comment(0), toks)
      [] OTHER -> TokOk(EmptyState, toks)

\* Tokeniser::new from the character at position p on: the loop over the
\* characters, then eof
RECURSIVE TokeniseFrom(_, _, _, _, _)
TokeniseFrom(data, p, state, toks, line_no) ==
    IF p > Len(data)
    THEN tokeniser_eof(state, toks)
    ELSE LET r == new_char(state, data[p], toks, line_no)
         IN  IF ~r.ok THEN r
             ELSE TokeniseFrom(data, p + 1, r.state, r.toks,
                               IF data[p] = "\n" THEN line_no + 1 ELSE line_no)

\* Tokeniser::new
Tokeniser_new(data) == TokeniseFrom(data, 1, EmptyState, <<>>, 1)

---------------------------------------------------------------------------
(* parser.rs: the parser's state machine *)

kw_struct == <<"s", "t", "r", "u", "c", "t">>

new_parse_error(line_no, expected, got) ==
    CartaError(line_no, "ParseError", <<expected, got>>)

\* CartaError::new_incomplete_input, called by CompilerState::eof
new_incomplete_input(line_no) == CartaError(line_no, "IncompleteInput", <<>>)

\* The line recorded in a StructDefn and in an Element: the line of the
\* token that names it.
StructLineNo(t) == t.line_no
ElementLineNo(t) == t.line_no

\* EmptyState, StructState and ArrayState (with its parent StructState's
\* fields) in one record; `st` says which state it is.
ParserState(st, sub, name, complete_children, new_child_name, asub, kind, length, line_no, new_child_line_no) ==
    [st |-> st, sub |-> sub, name |-> name, complete_children |-> complete_children,
     new_child_name |-> new_child_name, asub |-> asub, kind |-> kind,
     length |-> length, line_no |-> line_no, new_child_line_no |-> new_child_line_no]

NoneStr == [some |-> FALSE, val |-> <<>>]
SomeStr(s) == [some |-> TRUE, val |-> s]
NoneLen == [some |-> FALSE, val |-> NoLength]
SomeLen(l) == [some |-> TRUE, val |-> l]

ParserEmptyState ==
    ParserState("Empty", "Begin", NoneStr, <<>>, NoneStr, "Begin", NoneStr, NoneLen, 0, 0)

\* StructState::new
StructState_new ==
    ParserState("Struct", "Begin", NoneStr, <<>>, NoneStr, "Begin", NoneStr, NoneLen, 0, 0)

\* an ArrayState whose parent has lost the name of the pending child
ArrayState_new_forgetful(parent) ==
    [parent EXCEPT !.st = "Array", !.asub = "Begin", !.kind = NoneStr,
                   !.length = NoneLen, !.new_child_name = NoneStr]

\* ArrayState::new(parent)
ArrayState_new(parent) ==
    [parent EXCEPT !.st = "Array", !.asub = "Begin", !.kind = NoneStr, !.length = NoneLen]

\* Result<Box<dyn CompilerState>, CartaError>, with the schema's structs
ParseOk(state, structs) == [ok |-> TRUE, err |-> NoError, state |-> state, structs |-> structs]
ParseErr(err, structs) ==
    [ok |-> FALSE, err |-> err, state |-> ParserEmptyState, structs |-> structs]

\* add_complete_struct putting the new struct first
add_complete_struct_front(state, structs) ==
    ParseOk(ParserEmptyState,
            <<StructDefn(state.name.val, state.complete_children, state.line_no)>>
                \o structs)

\* StructState::add_complete_struct followed by the return to EmptyState
add_complete_struct(state, structs) ==
    ParseOk(ParserEmptyState,
            Append(structs, StructDefn(state.name.val, state.complete_children,
                                       state.line_no)))

\* StructState::append_child
append_child(state, kind) ==
    [state EXCEPT !.complete_children =
                      Append(@, Element(state.new_child_name.val, kind,
                                        state.new_child_line_no)),
                  !.new_child_name = NoneStr]

\* new_state reporting a Word that is no keyword as a misplaced name
parser_new_state_name(t, structs) ==
    IF t.kind = "Word"
    THEN IF get_string(t) = kw_struct
         THEN ParseOk(StructState_new, structs)
         ELSE ParseErr(new_parse_error(t.line_no, <<"<name>">>, get_string(t)), structs)
    ELSE IF t.kind = "NewLine" THEN ParseOk(ParserEmptyState, structs)
    ELSE ParseErr(new_parse_error(t.line_no, <<"<keyword>">>, get_string(t)), structs)

\* fn new_state: its only caller, EmptyState::new_token, stays in EmptyState
\* on Ok(None)
parser_new_state(t, structs) ==
    IF t.kind = "Word"
    THEN IF get_string(t) = kw_struct
         THEN ParseOk(StructState_new, structs)
         ELSE ParseErr(new_parse_error(t.line_no, <<"<keyword>">>, get_string(t)), structs)
    ELSE IF t.kind = "NewLine" THEN ParseOk(ParserEmptyState, structs)
    ELSE ParseErr(new_parse_error(t.line_no, <<"<keyword>">>, get_string(t)), structs)

\* StructState::new_token taking a comma where an element name or the closing
\* brace is due
struct_new_token_comma(state, t, structs) ==
    IF t.kind = "NewLine" THEN ParseOk(state, structs)
    ELSE CASE state.sub = "Begin" ->
                IF t.kind # "Word"
                THEN ParseErr(new_parse_error(t.line_no, <<"<name>">>, get_string(t)), structs)
                ELSE ParseOk([state EXCEPT !.name = SomeStr(get_string(t)),
                                           !.line_no = StructLineNo(t),
                                           !.sub = "Name"], structs)
           [] state.sub = "Name" ->
                IF t.kind # "OpenBrace"
                THEN ParseErr(new_parse_error(t.line_no, <<"{">>, get_string(t)), structs)
                ELSE ParseOk([state EXCEPT !.sub = "OpenBrace"], structs)
           [] state.sub = "OpenBrace" ->
                IF t.kind = "CloseBrace" THEN add_complete_struct(state, structs)
                ELSE IF t.kind = "Comma" THEN ParseOk(state, structs)
                ELSE IF t.kind = "Word"
                THEN ParseOk([state EXCEPT !.new_child_name = SomeStr(get_string(t)),
                                           !.new_child_line_no = ElementLineNo(t),
                                           !.sub = "ChildName"], structs)
                ELSE ParseErr(new_parse_error(t.line_no, <<"}">>, get_string(t)), structs)
           [] state.sub = "ChildName" ->
                IF t.kind # "Colon"
                THEN ParseErr(new_parse_error(t.line_no, <<":">>, get_string(t)), structs)
                ELSE ParseOk([state EXCEPT !.sub = "ChildTypeOf"], structs)
           [] state.sub = "ChildTypeOf" ->
                IF t.kind = "Word"
                THEN ParseOk([append_child(state, TypeName(get_string(t)))
                                 EXCEPT !.sub = "ChildKind"], structs)
                ELSE IF t.kind = "OpenBracket"
                THEN ParseOk(ArrayState_new([state EXCEPT !.sub = "ChildKind"]), structs)
                ELSE ParseErr(new_parse_error(t.line_no, <<"<typename>">>, get_string(t)),
                              structs)
           [] state.sub = "ChildKind" ->
                IF t.kind = "Comma" THEN ParseOk([state EXCEPT !.sub = "OpenBrace"], structs)
                ELSE IF t.kind = "CloseBrace" THEN add_complete_struct(state, structs)
                ELSE ParseErr(new_parse_error(t.line_no, <<",">>, get_string(t)), structs)

\* impl CompilerState for StructState
struct_new_token(state, t, structs) ==
    IF t.kind = "NewLine" THEN ParseOk(state, structs)
    ELSE CASE state.sub = "Begin" ->
                IF t.kind # "Word"
                THEN ParseErr(new_parse_error(t.line_no, <<"<name>">>, get_string(t)), structs)
                ELSE ParseOk([state EXCEPT !.name = SomeStr(get_string(t)),
                                           !.line_no = StructLineNo(t),
                                           !.sub = "Name"], structs)
           [] state.sub = "Name" ->
                IF t.kind # "OpenBrace"
                THEN ParseErr(new_parse_error(t.line_no, <<"{">>, get_string(t)), structs)
                ELSE ParseOk([state EXCEPT !.sub = "OpenBrace"], structs)
           [] state.sub = "OpenBrace" ->
                IF t.kind = "CloseBrace" THEN add_complete_struct(state, structs)
                ELSE IF t.kind = "Word"
                THEN ParseOk([state EXCEPT !.new_child_name = SomeStr(get_string(t)),
                                           !.new_child_line_no = ElementLineNo(t),
                                           !.sub = "ChildName"], structs)
                ELSE ParseErr(new_parse_error(t.line_no, <<"}">>, get_string(t)), structs)
           [] state.sub = "ChildName" ->
                IF t.kind # "Colon"
                THEN ParseErr(new_parse_error(t.line_no, <<":">>, get_string(t)), structs)
                ELSE ParseOk([state EXCEPT !.sub = "ChildTypeOf"], structs)
           [] state.sub = "ChildTypeOf" ->
                IF t.kind = "Word"
                THEN ParseOk([append_child(state, TypeName(get_string(t)))
                                 EXCEPT !.sub = "ChildKind"], structs)
                ELSE IF t.kind = "OpenBracket"
                THEN ParseOk(ArrayState_new([state EXCEPT !.sub = "ChildKind"]), structs)
                ELSE ParseErr(new_parse_error(t.line_no, <<"<typename>">>, get_string(t)),
                              structs)
           [] state.sub = "ChildKind" ->
                IF t.kind = "Comma" THEN ParseOk([state EXCEPT !.sub = "OpenBrace"], structs)
                ELSE IF t.kind = "CloseBrace" THEN add_complete_struct(state, structs)
                ELSE ParseErr(new_parse_error(t.line_no, <<",">>, get_string(t)), structs)

\* impl CompilerState for ArrayState
array_new_token(state, t, structs) ==
    IF t.kind = "NewLine" THEN ParseOk(state, structs)
    ELSE CASE state.asub = "Begin" ->
                IF t.kind # "Word"
                THEN ParseErr(new_parse_error(t.line_no, <<"<typename>">>, get_string(t)),
                              structs)
                ELSE ParseOk([state EXCEPT !.kind = SomeStr(get_string(t)),
                                           !.asub = "Kind"], structs)
           [] state.asub = "Kind" ->
                IF t.kind # "Semicolon"
                THEN ParseErr(new_parse_error(t.line_no, <<";">>, get_string(t)), structs)
                ELSE ParseOk([state EXCEPT !.asub = "Semicolon"], structs)
           [] state.asub = "Semicolon" ->
                IF t.kind = "Word"
                THEN ParseOk([state EXCEPT !.length = SomeLen(Identifier(get_string(t))),
                                           !.asub = "Length"], structs)
                ELSE IF t.kind = "Integer"
                THEN ParseOk([state EXCEPT !.length = SomeLen(Static(t.ival)),
                                           !.asub = "Length"], structs)
                ELSE ParseErr(new_parse_error(t.line_no, <<"<array_length>">>,
                                              get_string(t)), structs)
           [] state.asub = "Length" ->
                IF t.kind # "CloseBracket"
                THEN ParseErr(new_parse_error(t.line_no, <<"]">>, get_string(t)), structs)
                ELSE ParseOk([append_child(state,
                                  ArrayElem(state.kind.val, state.length.val))
                                 EXCEPT !.st = "Struct", !.asub = "Begin",
                                        !.kind = NoneStr, !.length = NoneLen], structs)

\* CompilerState::new_token, dispatched on the current state
new_token(state, t, structs) ==
    CASE state.st = "Empty" -> parser_new_state(t, structs)
      [] state.st = "Struct" -> struct_new_token(state, t, structs)
      [] state.st = "Array" -> array_new_token(state, t, structs)

\* eof returning the structs completed so far when a later one is unfinished
parser_eof_completed(state, structs) ==
    IF state.st = "Empty" \/ structs # <<>>
    THEN ParseOk(state, structs)
    ELSE ParseErr(new_incomplete_input(0), structs)

\* CompilerState::eof: Ok for EmptyState, the default for the others
parser_eof(state, structs) ==
    IF state.st = "Empty"
    THEN ParseOk(state, structs)
    ELSE ParseErr(new_incomplete_input(0), structs)

---------------------------------------------------------------------------
(* The compilation as a state machine: lib.rs compile_schema_file *)

NoResult == [status |-> "none", err |-> NoError]
Success == [status |-> "ok", err |-> NoError]
Failure(err) == [status |-> "err", err |-> err]

BuildStructsMap ==
    /\ pc = "build_structs_map"
    /\ stages' = Append(stages, "build_structs_map")
    /\ LET r == build_structs_map(schema)
       IN  IF r.ok
           THEN /\ types_map' = r.val
                /\ pc' = "check_all_types_defined"
                /\ result' = result
           ELSE /\ types_map' = types_map
                /\ pc' = "done"
                /\ result' = Failure(r.err)
    /\ UNCHANGED <<schema, types_resolved, dependant_types, types_stack, applyVars, frontVars>>

\* check_types without the `?` after check_all_types_defined: the error is
\* recorded and the next check runs all the same
CheckAllTypesDefined_continue ==
    /\ pc = "check_all_types_defined"
    /\ stages' = Append(stages, "check_all_types_defined")
    /\ \E order \in Orders(DOMAIN types_map) :
         LET r == check_all_types_defined(types_map, order)
         IN  IF r.ok
             THEN pc' = "first_scan" /\ result' = result
             ELSE pc' = "first_scan" /\ result' = Failure(r.err)
    /\ UNCHANGED <<schema, types_map, types_resolved, dependant_types, types_stack, applyVars, frontVars>>

CheckAllTypesDefined ==
    /\ pc = "check_all_types_defined"
    /\ stages' = Append(stages, "check_all_types_defined")
    /\ \E order \in Orders(DOMAIN types_map) :
         LET r == check_all_types_defined(types_map, order)
         IN  IF r.ok
             THEN pc' = "first_scan" /\ result' = result
             ELSE pc' = "done" /\ result' = Failure(r.err)
    /\ UNCHANGED <<schema, types_map, types_resolved, dependant_types, types_stack, applyVars, frontVars>>

FirstScan ==
    /\ pc = "first_scan"
    /\ stages' = Append(stages, "check_types_no_loops")
    /\ \E order \in Orders(DOMAIN types_map) :
         LET st == first_scan(types_map, order)
         IN  /\ types_resolved' = st.resolved
             /\ dependant_types' = st.dependants
             /\ types_stack' = st.stack
    /\ pc' = "worklist"
    /\ UNCHANGED <<schema, types_map, result, applyVars, frontVars>>

WorklistPop ==
    /\ pc = "worklist"
    /\ types_stack # <<>>
    /\ LET kind_name == types_stack[Len(types_stack)]
           popped == SubSeq(types_stack, 1, Len(types_stack) - 1)
           st == IF kind_name \in DOMAIN dependant_types
                 THEN check_parents_from(types_map, dependant_types[kind_name], 1,
                          ScanState(types_resolved, dependant_types, popped))
                 ELSE ScanState(types_resolved, dependant_types, popped)
       IN  /\ types_resolved' = st.resolved
           /\ types_stack' = st.stack
    /\ UNCHANGED <<pc, stages, schema, types_map, dependant_types, result, applyVars, frontVars>>

CollectRecursiveTypes ==
    /\ pc = "worklist"
    /\ types_stack = <<>>
    /\ \E order \in Orders(DOMAIN types_map) :
         LET r == check_types_no_loops_result(types_map, order, types_resolved)
         IN  IF r.ok
             THEN pc' = "check_root_element" /\ result' = result
             ELSE pc' = "done" /\ result' = Failure(r.err)
    /\ UNCHANGED <<stages, schema, types_map, types_resolved, dependant_types, types_stack, applyVars, frontVars>>

CheckRootElement ==
    /\ pc = "check_root_element"
    /\ stages' = Append(stages, "check_root_element")
    /\ LET r == check_root_element(types_map)
       IN  IF r.ok
           THEN pc' = "check_array_lengths" /\ result' = result
           ELSE pc' = "done" /\ result' = Failure(r.err)
    /\ UNCHANGED <<schema, types_map, types_resolved, dependant_types, types_stack, applyVars, frontVars>>

CheckArrayLengths ==
    /\ pc = "check_array_lengths"
    /\ stages' = Append(stages, "check_array_lengths")
    /\ \E order \in Orders(DOMAIN types_map) :
         LET r == check_array_lengths(types_map, order)
         IN  IF r.ok
             THEN pc' = "done" /\ result' = Success
             ELSE pc' = "done" /\ result' = Failure(r.err)
    /\ UNCHANGED <<schema, types_map, types_resolved, dependant_types, types_stack, applyVars, frontVars>>

---------------------------------------------------------------------------
(* SpecTC: type check and correctness checks of a parsed Schema *)

StructNames == {root, name_a, name_b}

ElemPool ==
    { [name |-> name_n, kind |-> TypeName(uint8)],
      [name |-> name_x, kind |-> TypeName(name_a)],
      [name |-> name_y, kind |-> ArrayElem(name_b, Identifier(name_n))] }

Bodies == UNION {[1..k -> ElemPool] : k \in 0..MaxElems}

Protos == UNION {[1..k -> [name : StructNames, body : Bodies]] : k \in 0..MaxStructs}

\* Struct i starts a line of its own, each of its elements is on a later line.
StructLine(i) == (i - 1) * (MaxElems + 1) + 1

MakeSchema(proto) ==
    [i \in 1..Len(proto) |->
        StructDefn(proto[i].name,
                   [j \in 1..Len(proto[i].body) |->
                        Element(proto[i].body[j].name, proto[i].body[j].kind,
                                StructLine(i) + j)],
                   StructLine(i))]

Schemas == {MakeSchema(p) : p \in Protos}

InitTC ==
    /\ pc = "build_structs_map"
    /\ stages = <<>>
    /\ schema \in Schemas
    /\ types_map = EmptyMap
    /\ types_resolved = {}
    /\ dependant_types = EmptyMap
    /\ types_stack = <<>>
    /\ result = NoResult
    /\ file_data = <<>>
    /\ applied = NotApplied
    /\ src_data = <<>>
    /\ src_pos = 0
    /\ tok_line_no = 1
    /\ tok_state = EmptyState
    /\ tokens = <<>>
    /\ tok_starts = <<>>
    /\ tok_pos = 0
    /\ parse_state = ParserEmptyState

NextTC ==
    \/ BuildStructsMap
    \/ CheckAllTypesDefined
    \/ FirstScan
    \/ WorklistPop
    \/ CollectRecursiveTypes
    \/ CheckRootElement
    \/ CheckArrayLengths

SpecTC == InitTC /\ [][NextTC]_vars

---------------------------------------------------------------------------
(* SpecApply: compile a parsed Schema, then apply it to bytes *)

name_m == <<"m">>
name_z == <<"z">>

ApplyElemPool ==
    { [name |-> name_n, kind |-> TypeName(int8)],
      [name |-> name_m, kind |-> TypeName(uint16_le)],
      [name |-> name_x, kind |-> TypeName(name_a)],
      [name |-> name_y, kind |-> ArrayElem(name_a, Identifier(name_n))],
      [name |-> name_y, kind |-> ArrayElem(uint8, Identifier(name_n))],
      [name |-> name_z, kind |-> ArrayElem(int16_be, Static(2))] }

ApplyBodies == UNION {[1..k -> ApplyElemPool] : k \in 0..MaxElems}

\* root alone, or root followed by a struct named a
ApplyProtos ==
    {<<[name |-> root, body |-> r]>> : r \in ApplyBodies}
        \cup {<<[name |-> root, body |-> r], [name |-> name_a, body |-> a]>> :
                  r \in ApplyBodies, a \in ApplyBodies}

ByteValues == {0, 1, 2, 255}

ByteArrays == UNION {[1..k -> ByteValues] : k \in 0..MaxBytes}

TextBytes == {0, 4, 97, 98, 99, 100}

TextArrays == UNION {[1..k -> TextBytes] : k \in 0..MaxTextBytes}

\* Names that are no built-in: a struct, and names close to built-in ones
OtherNames ==
    { name_a, <<"i", "n", "t", "8", "_", "l", "e">>, <<"i", "n", "t", "1", "6">>,
      <<"f", "3", "2">>, <<"A", "S", "C", "I", "I">>, <<"u", "i", "n", "t", "8", "_">> }

PrimNames ==
    {int8, int16_be, int16_le, int32_be, int32_le, int64_be, int64_le,
     uint8, uint16_be, uint16_le, uint32_be, uint32_le, uint64_be, uint64_le,
     f32_be, f32_le, f64_be, f64_le, ascii} \cup OtherNames

\* root with two elements of any two of these types and a uint8 behind them,
\* and an empty struct a
PrimSchemas ==
    {MakeSchema(<< [name |-> root,
                    body |-> << [name |-> name_n, kind |-> TypeName(first)],
                                [name |-> name_m, kind |-> TypeName(second)],
                                [name |-> name_x, kind |-> TypeName(uint8)] >>],
                   [name |-> name_a, body |-> <<>>] >>) :
        first \in PrimNames, second \in PrimNames}

\* files of one byte value, and the file of the bytes 1, 2, 3, ...
PrimFiles ==
    {[i \in 1..k |-> b] : k \in {0, 1, 3, 9, MaxPrimBytes}, b \in {0, 255}}
        \cup {[i \in 1..MaxPrimBytes |-> i]}

\* The files a schema is applied to: long files for the schemas of wide
\* built-ins, files of characters for a schema that uses ascii, files of small
\* and large bytes for the others
FileInputs(structs) ==
    IF structs \in PrimSchemas THEN PrimFiles
    ELSE IF \E i \in 1..Len(structs) : \E j \in 1..Len(structs[i].elements) :
           structs[i].elements[j].kind.kind = ascii
    THEN TextArrays
    ELSE ByteArrays

InitApply ==
    /\ pc = "build_structs_map"
    /\ stages = <<>>
    /\ schema \in {MakeSchema(p) : p \in ApplyProtos}
    /\ types_map = EmptyMap
    /\ types_resolved = {}
    /\ dependant_types = EmptyMap
    /\ types_stack = <<>>
    /\ result = NoResult
    /\ file_data = <<>>
    /\ applied = NotApplied
    /\ src_data = <<>>
    /\ src_pos = 0
    /\ tok_line_no = 1
    /\ tok_state = EmptyState
    /\ tokens = <<>>
    /\ tok_starts = <<>>
    /\ tok_pos = 0
    /\ parse_state = ParserEmptyState

ApplySchema ==
    /\ pc = "done"
    /\ result.status = "ok"
    /\ \E data \in FileInputs(schema) :
         LET r == apply_schema(types_map, data)
         IN  /\ file_data' = data
             /\ applied' = IF r.ok
                           THEN [status |-> "ok", why |-> "None", nugget |-> r.nugget]
                           ELSE [status |-> "panic", why |-> r.why, nugget |-> NoNugget]
    /\ pc' = "applied"
    /\ UNCHANGED <<stages, schema, types_map, types_resolved, dependant_types,
                   types_stack, result, frontVars>>

NextApply == NextTC \/ ApplySchema

InitPrim ==
    /\ pc = "build_structs_map"
    /\ stages = <<>>
    /\ schema \in PrimSchemas
    /\ types_map = EmptyMap
    /\ types_resolved = {}
    /\ dependant_types = EmptyMap
    /\ types_stack = <<>>
    /\ result = NoResult
    /\ file_data = <<>>
    /\ applied = NotApplied
    /\ src_data = <<>>
    /\ src_pos = 0
    /\ tok_line_no = 1
    /\ tok_state = EmptyState
    /\ tokens = <<>>
    /\ tok_starts = <<>>
    /\ tok_pos = 0
    /\ parse_state = ParserEmptyState

\* SpecPrim: root structs of every pair of built-in types, compiled and applied
SpecPrim == InitPrim /\ [][NextApply]_vars

SpecApply == InitApply /\ [][NextApply]_vars

---------------------------------------------------------------------------
(* SpecSib: structs whose elements share one name, compiled and applied *)

\* Elements called n of several kinds, and an array whose length is n.
SibElemPool ==
    { [name |-> name_n, kind |-> TypeName(uint8)],
      [name |-> name_n, kind |-> TypeName(uint16_le)],
      [name |-> name_n, kind |-> TypeName(name_a)],
      [name |-> name_n, kind |-> ArrayElem(uint8, Static(1))],
      [name |-> name_y, kind |-> ArrayElem(uint8, Identifier(name_n))] }

SibBodies == UNION {[1..k -> SibElemPool] : k \in 0..MaxSibElems}

SibStructA == [name |-> name_a, body |-> <<[name |-> name_m, kind |-> TypeName(uint8)]>>]

\* root followed by a struct named a, root alone, and a alone
SibProtos ==
    {<<[name |-> root, body |-> r], SibStructA>> : r \in SibBodies}
        \cup {<<[name |-> root, body |-> r]>> : r \in SibBodies}
        \cup {<<SibStructA>>}

InitSib ==
    /\ pc = "build_structs_map"
    /\ stages = <<>>
    /\ schema \in {MakeSchema(p) : p \in SibProtos}
    /\ types_map = EmptyMap
    /\ types_resolved = {}
    /\ dependant_types = EmptyMap
    /\ types_stack = <<>>
    /\ result = NoResult
    /\ file_data = <<>>
    /\ applied = NotApplied
    /\ src_data = <<>>
    /\ src_pos = 0
    /\ tok_line_no = 1
    /\ tok_state = EmptyState
    /\ tokens = <<>>
    /\ tok_starts = <<>>
    /\ tok_pos = 0
    /\ parse_state = ParserEmptyState

SpecSib == InitSib /\ [][NextApply]_vars

---------------------------------------------------------------------------
(* SpecArr: the checks of a struct root whose elements are array lengths and *)
(* arrays, followed by an empty struct a                                     *)

ArrElemPool ==
    { [name |-> name_n, kind |-> TypeName(uint8)],
      [name |-> name_n, kind |-> TypeName(int16_le)],
      [name |-> name_n, kind |-> TypeName(f32_be)],
      [name |-> name_n, kind |-> TypeName(ascii)],
      [name |-> name_n, kind |-> TypeName(name_a)],
      [name |-> name_n, kind |-> ArrayElem(uint8, Static(2))],
      [name |-> name_n, kind |-> ArrayElem(uint8, Identifier(name_n))],
      [name |-> name_y, kind |-> ArrayElem(uint8, Identifier(name_n))] }

ArrBodies == UNION {[1..k -> ArrElemPool] : k \in 0..MaxArrElems}

ArrSchemas ==
    {MakeSchema(<<[name |-> root, body |-> b], [name |-> name_a, body |-> <<>>]>>) :
        b \in ArrBodies}

InitArr ==
    /\ pc = "build_structs_map"
    /\ stages = <<>>
    /\ schema \in ArrSchemas
    /\ types_map = EmptyMap
    /\ types_resolved = {}
    /\ dependant_types = EmptyMap
    /\ types_stack = <<>>
    /\ result = NoResult
    /\ file_data = <<>>
    /\ applied = NotApplied
    /\ src_data = <<>>
    /\ src_pos = 0
    /\ tok_line_no = 1
    /\ tok_state = EmptyState
    /\ tokens = <<>>
    /\ tok_starts = <<>>
    /\ tok_pos = 0
    /\ parse_state = ParserEmptyState

NextArr ==
    \/ BuildStructsMap
    \/ CheckAllTypesDefined
    \/ FirstScan
    \/ WorklistPop
    \/ CollectRecursiveTypes
    \/ CheckRootElement
    \/ CheckArrayLengths

SpecArr == InitArr /\ [][NextArr]_vars

---------------------------------------------------------------------------
(* Spec: the whole compilation of a source text, lib.rs compile_schema_file *)

\* A stage is recorded once, when its first step runs
Enter(stage) ==
    IF stages # <<>> /\ stages[Len(stages)] = stage THEN stages ELSE Append(stages, stage)

\* The positions of the first characters of the `pushed` tokens that a step
\* at position p pushes: a Word or Integer in progress began as many
\* characters back as it holds; a one-character token begins at p.
StartsOfPushed(state, p, pushed) ==
    LET held == IF state.st = "Word" THEN Len(state.value)
                ELSE IF state.st = "Integer" THEN state.num_digits ELSE 0
    IN  IF pushed = 0 THEN <<>>
        ELSE IF held = 0 THEN <<p>>
        ELSE IF pushed = 1 THEN <<p - held>>
        ELSE <<p - held, p>>

\* One iteration of the loop of Tokeniser::new
TokeniseChar ==
    /\ pc = "tokenise"
    /\ src_pos < Len(src_data)
    /\ stages' = Enter("tokenise")
    /\ LET c == src_data[src_pos + 1]
           r == new_char(tok_state, c, tokens, tok_line_no)
       IN  IF r.ok
           THEN /\ tok_state' = r.state
                /\ tokens' = r.toks
                /\ tok_starts' = tok_starts \o StartsOfPushed(tok_state, src_pos + 1,
                                                             Len(r.toks) - Len(tokens))
                /\ src_pos' = src_pos + 1
                /\ tok_line_no' = IF c = "\n" THEN tok_line_no + 1 ELSE tok_line_no
                /\ UNCHANGED <<pc, result>>
           ELSE /\ pc' = "done"
                /\ result' = Failure(r.err)
                /\ UNCHANGED <<tok_state, tokens, tok_starts, src_pos, tok_line_no>>
    /\ UNCHANGED <<src_data, tok_pos, parse_state, schema, types_map, types_resolved,
                   dependant_types, types_stack, applyVars>>

\* The end of Tokeniser::new: state.eof()
TokeniseEof ==
    /\ pc = "tokenise"
    /\ src_pos = Len(src_data)
    /\ stages' = Enter("tokenise")
    /\ LET r == tokeniser_eof(tok_state, tokens)
       IN  IF r.ok
           THEN /\ tok_state' = r.state
                /\ tokens' = r.toks
                /\ tok_starts' = tok_starts \o StartsOfPushed(tok_state, src_pos + 1,
                                                             Len(r.toks) - Len(tokens))
                /\ pc' = "parse"
                /\ result' = result
           ELSE /\ pc' = "done"
                /\ result' = Failure(r.err)
                /\ UNCHANGED <<tok_state, tokens, tok_starts>>
    /\ UNCHANGED <<src_data, src_pos, tok_line_no, tok_pos, parse_state, schema, types_map,
                   types_resolved, dependant_types, types_stack, applyVars>>

\* One iteration of the loop of parser::compile_schema
ParseToken ==
    /\ pc = "parse"
    /\ tok_pos < Len(tokens)
    /\ stages' = Enter("parse")
    /\ LET r == new_token(parse_state, tokens[tok_pos + 1], schema)
       IN  IF r.ok
           THEN /\ parse_state' = r.state
                /\ schema' = r.structs
                /\ tok_pos' = tok_pos + 1
                /\ UNCHANGED <<pc, result>>
           ELSE /\ pc' = "done"
                /\ result' = Failure(r.err)
                /\ UNCHANGED <<parse_state, schema, tok_pos>>
    /\ UNCHANGED <<src_data, src_pos, tok_line_no, tok_state, tokens, tok_starts, types_map,
                   types_resolved, dependant_types, types_stack, applyVars>>

\* The end of parser::compile_schema: state.eof()
ParseEof ==
    /\ pc = "parse"
    /\ tok_pos = Len(tokens)
    /\ stages' = Enter("parse")
    /\ LET r == parser_eof(parse_state, schema)
       IN  IF r.ok
           THEN pc' = "build_structs_map" /\ result' = result
           ELSE pc' = "done" /\ result' = Failure(r.err)
    /\ UNCHANGED <<src_data, src_pos, tok_line_no, tok_state, tokens, tok_starts, tok_pos,
                   parse_state, schema, types_map, types_resolved, dependant_types,
                   types_stack, applyVars>>

\* Source texts: schemas written out, whole or cut short, and schemas with
\* a fragment inserted.
RECURSIVE Flatten(_)
Flatten(ss) == IF ss = <<>> THEN <<>> ELSE Head(ss) \o Flatten(Tail(ss))

SrcNames == {root, name_a}

SrcElemPool ==
    { [name |-> name_n, kind |-> TypeName(uint8)],
      [name |-> name_x, kind |-> TypeName(name_a)],
      [name |-> name_z, kind |-> TypeName(name_b)],
      [name |-> name_y, kind |-> ArrayElem(uint8, Identifier(name_n))] }

SrcBodies == UNION {[1..k -> SrcElemPool] : k \in 0..MaxElems}

SrcProtos == UNION {[1..k -> [name : SrcNames, body : SrcBodies]] : k \in 0..MaxSrcStructs}

RenderLength(length) ==
    IF length.tag = "Static" THEN NatToString(length.n) ELSE length.id

RenderKind(kind) ==
    IF kind.tag = "TypeName"
    THEN kind.kind
    ELSE <<"[">> \o kind.kind \o <<";", " ">> \o RenderLength(kind.length) \o <<"]">>

\* name: kind, one element per line, no comma after the last
RenderBody(body) ==
    Flatten([j \in 1..Len(body) |->
                 body[j].name \o <<":">> \o RenderKind(body[j].kind)
                     \o (IF j < Len(body) THEN <<",", "\n">> ELSE <<>>)])

RenderStruct(s) ==
    kw_struct \o <<" ">> \o s.name \o <<"{", "\n">> \o RenderBody(s.body) \o <<"}", "\n">>

Render(proto) == Flatten([i \in 1..Len(proto) |-> RenderStruct(proto[i])])

Fragments ==
    { <<"0">>, <<"#">>, <<"sup2">>, <<"/", " ">>, <<"/", "*">>, <<"/", "*", "c", "*", "/">>,
      <<"/", "/", "c">>, <<"1", "2", "3", "4", "5", "6", "7", "8", "9", "0">>,
      <<",">>, <<"9">>, <<"e_acute">> }

Prefixes(text) == {SubSeq(text, 1, k) : k \in 0..Len(text)}

Insertions(text) ==
    {SubSeq(text, 1, k) \o f \o SubSeq(text, k + 1, Len(text)) :
        k \in {0, 9, Len(text)} \cap (0..Len(text)), f \in Fragments}

Sources ==
    {Render(p) : p \in SrcProtos}
        \cup UNION {Prefixes(Render(p)) \cup Insertions(Render(p)) :
                        p \in {q \in SrcProtos : Len(q) <= 1}}

Init ==
    /\ pc = "tokenise"
    /\ stages = <<>>
    /\ src_data \in Sources
    /\ src_pos = 0
    /\ tok_line_no = 1
    /\ tok_state = EmptyState
    /\ tokens = <<>>
    /\ tok_starts = <<>>
    /\ tok_pos = 0
    /\ parse_state = ParserEmptyState
    /\ schema = <<>>
    /\ types_map = EmptyMap
    /\ types_resolved = {}
    /\ dependant_types = EmptyMap
    /\ types_stack = <<>>
    /\ result = NoResult
    /\ file_data = <<>>
    /\ applied = NotApplied

Next ==
    \/ TokeniseChar
    \/ TokeniseEof
    \/ ParseToken
    \/ ParseEof
    \/ BuildStructsMap
    \/ CheckAllTypesDefined
    \/ FirstScan
    \/ WorklistPop
    \/ CollectRecursiveTypes
    \/ CheckRootElement
    \/ CheckArrayLengths

Spec == Init /\ [][Next]_vars

---------------------------------------------------------------------------
(* SpecText: schemas of ascii arrays, compiled from their source text and *)
(* applied to files of characters                                         *)

name_header == <<"h", "e", "a", "d", "e", "r">>
type_Header == <<"H", "e", "a", "d", "e", "r">>
name_name == <<"n", "a", "m", "e">>
type_String == <<"S", "t", "r", "i", "n", "g">>
name_len == <<"l", "e", "n">>
name_value == <<"v", "a", "l", "u", "e">>

\* the struct String of tests/integration_test.rs, under a given name
StringBody(len_kind) ==
    << [name |-> name_len, kind |-> TypeName(len_kind)],
       [name |-> name_value, kind |-> ArrayElem(ascii, Identifier(name_len))] >>

TextProtos ==
    { << [name |-> root, body |-> <<[name |-> name_header, kind |-> TypeName(type_Header)]>>],
         [name |-> type_Header, body |-> <<[name |-> name_name, kind |-> TypeName(type_String)]>>],
         [name |-> type_String, body |-> StringBody(int8)] >>,
      << [name |-> root, body |-> StringBody(int8)] >>,
      << [name |-> root, body |-> StringBody(uint8) \o <<[name |-> name_n, kind |-> TypeName(ascii)]>>] >> }

TextSources == {Render(p) : p \in TextProtos}

InitText ==
    /\ pc = "tokenise"
    /\ stages = <<>>
    /\ src_data \in TextSources
    /\ src_pos = 0
    /\ tok_line_no = 1
    /\ tok_state = EmptyState
    /\ tokens = <<>>
    /\ tok_starts = <<>>
    /\ tok_pos = 0
    /\ parse_state = ParserEmptyState
    /\ schema = <<>>
    /\ types_map = EmptyMap
    /\ types_resolved = {}
    /\ dependant_types = EmptyMap
    /\ types_stack = <<>>
    /\ result = NoResult
    /\ file_data = <<>>
    /\ applied = NotApplied

NextText == Next \/ ApplySchema

SpecText == InitText /\ [][NextText]_vars

---------------------------------------------------------------------------
(* SpecFront: tokeniser and parser on a struct whose names may begin with *)
(* a digit                                                                *)

DigitNames == { <<"1", "a", "b", "c">>, <<"2", "x">>, <<"1", "2", "Z">> }

\* struct sname { ename: tname, aname: [kname; lname] }
SlotText(sname, ename, tname, aname, kname, lname) ==
    kw_struct \o <<" ">> \o sname \o <<"{", "\n">>
        \o ename \o <<":">> \o tname \o <<",", "\n">>
        \o aname \o <<":", "[">> \o kname \o <<";", " ">> \o lname \o <<"]", "}", "\n">>

FrontSources ==
    {SlotText(root, name_n, uint8, name_y, uint8, name_n)}
        \cup {SlotText(d, name_n, uint8, name_y, uint8, name_n) : d \in DigitNames}
        \cup {SlotText(root, d, uint8, name_y, uint8, name_n) : d \in DigitNames}
        \cup {SlotText(root, name_n, d, name_y, uint8, name_n) : d \in DigitNames}
        \cup {SlotText(root, name_n, uint8, d, uint8, name_n) : d \in DigitNames}
        \cup {SlotText(root, name_n, uint8, name_y, d, name_n) : d \in DigitNames}
        \cup {SlotText(root, name_n, uint8, name_y, uint8, d) : d \in DigitNames}
        \cup DigitNames
        \cup {<<"\n">> \o d \o <<" ">> : d \in DigitNames}

InitFront ==
    /\ pc = "tokenise"
    /\ stages = <<>>
    /\ src_data \in FrontSources
    /\ src_pos = 0
    /\ tok_line_no = 1
    /\ tok_state = EmptyState
    /\ tokens = <<>>
    /\ tok_starts = <<>>
    /\ tok_pos = 0
    /\ parse_state = ParserEmptyState
    /\ schema = <<>>
    /\ types_map = EmptyMap
    /\ types_resolved = {}
    /\ dependant_types = EmptyMap
    /\ types_stack = <<>>
    /\ result = NoResult
    /\ file_data = <<>>
    /\ applied = NotApplied

NextFront ==
    \/ TokeniseChar
    \/ TokeniseEof
    \/ ParseToken
    \/ ParseEof

SpecFront == InitFront /\ [][NextFront]_vars

---------------------------------------------------------------------------
(* SpecDet: sources of two structs with a fault in each, compiled *)

\* Elements of two unknown types b and m, an element n that is a struct or an
\* integer, and an array whose length is n.
DetElemPool ==
    { [name |-> name_x, kind |-> TypeName(name_b)],
      [name |-> name_z, kind |-> TypeName(name_m)],
      [name |-> name_n, kind |-> TypeName(name_a)],
      [name |-> name_n, kind |-> TypeName(uint8)],
      [name |-> name_y, kind |-> ArrayElem(uint8, Identifier(name_n))] }

DetBodies == UNION {[1..k -> DetElemPool] : k \in 0..MaxDetElems}

DetSources ==
    {Render(<<[name |-> root, body |-> r], [name |-> name_a, body |-> a]>>) :
        r \in DetBodies, a \in DetBodies}

InitDet ==
    /\ pc = "tokenise"
    /\ stages = <<>>
    /\ src_data \in DetSources
    /\ src_pos = 0
    /\ tok_line_no = 1
    /\ tok_state = EmptyState
    /\ tokens = <<>>
    /\ tok_starts = <<>>
    /\ tok_pos = 0
    /\ parse_state = ParserEmptyState
    /\ schema = <<>>
    /\ types_map = EmptyMap
    /\ types_resolved = {}
    /\ dependant_types = EmptyMap
    /\ types_stack = <<>>
    /\ result = NoResult
    /\ file_data = <<>>
    /\ applied = NotApplied

SpecDet == InitDet /\ [][Next]_vars

---------------------------------------------------------------------------
(* SpecLen: sources spelt from lexemes, among them arrays of literal length,
   tokenised and parsed *)

\* What may stand as the length of an array: literals around the limits, and
\* a name.
LenLits ==
    { <<"0">>, <<"1">>, <<"2">>, <<"1", "0">>, <<"0", "1">>,
      <<"9", "9", "9", "9", "9", "9", "9", "9", "9">>,
      <<"1", "0", "0", "0", "0", "0", "0", "0", "0", "0">>,
      name_n }

Lexemes ==
    { kw_struct, name_a, <<"7">>, <<"{">>, <<"}">>, <<"[">>, <<"]">>, <<":">>,
      <<";">>, <<",">>, <<"\n">> }

\* struct root { n : uint8 , y : [ uint8 ; lit ] }
LenBase(lit) ==
    << kw_struct, root, <<"{">>, name_n, <<":">>, uint8, <<",">>, name_y, <<":">>,
       <<"[">>, uint8, <<";">>, lit, <<"]">>, <<"}">> >>

\* The lexemes, each followed by a space.
Spell(lexemes) == Flatten([i \in 1..Len(lexemes) |-> lexemes[i] \o <<" ">>])

\* lexemes with one lexeme left out, or one replaced by another
Slips(lexemes) ==
    {SubSeq(lexemes, 1, k - 1) \o SubSeq(lexemes, k + 1, Len(lexemes)) :
        k \in 1..Len(lexemes)}
        \cup {[lexemes EXCEPT ![k] = l] : k \in 1..Len(lexemes), l \in Lexemes}

LenSources ==
    {Spell(LenBase(lit)) : lit \in LenLits}
        \cup {Spell(t) : t \in Slips(LenBase(<<"2">>))}
        \cup {Spell(t) : t \in UNION {[1..k -> Lexemes] : k \in 0..MaxLexemes}}

InitLen ==
    /\ pc = "tokenise"
    /\ stages = <<>>
    /\ src_data \in LenSources
    /\ src_pos = 0
    /\ tok_line_no = 1
    /\ tok_state = EmptyState
    /\ tokens = <<>>
    /\ tok_starts = <<>>
    /\ tok_pos = 0
    /\ parse_state = ParserEmptyState
    /\ schema = <<>>
    /\ types_map = EmptyMap
    /\ types_resolved = {}
    /\ dependant_types = EmptyMap
    /\ types_stack = <<>>
    /\ result = NoResult
    /\ file_data = <<>>
    /\ applied = NotApplied

SpecLen == InitLen /\ [][NextFront]_vars

---------------------------------------------------------------------------
(* SpecTok: the tokeniser alone, on every short text *)

CommentChars == {"a", "/", "*", "\n"}

TokChars ==
    {"a", "Z", "0", "1", "_", " ", "\t", "\n", "/", "*", ":", "{", "#", "e_acute", "sup2"}

DigitTails == {<<>>, <<" ">>, <<"a">>, <<"sup2">>}

TokTexts ==
    UNION {[1..k -> CommentChars] : k \in 0..MaxCommentLen}
        \cup UNION {[1..k -> TokChars] : k \in 0..MaxCharsLen}
        \cup {d \o t : d \in UNION {[1..k -> {"0", "9"}] : k \in 1..MaxDigits},
                        t \in DigitTails}

InitTok ==
    /\ pc = "tokenise"
    /\ stages = <<>>
    /\ src_data \in TokTexts
    /\ src_pos = 0
    /\ tok_line_no = 1
    /\ tok_state = EmptyState
    /\ tokens = <<>>
    /\ tok_starts = <<>>
    /\ tok_pos = 0
    /\ parse_state = ParserEmptyState
    /\ schema = <<>>
    /\ types_map = EmptyMap
    /\ types_resolved = {}
    /\ dependant_types = EmptyMap
    /\ types_stack = <<>>
    /\ result = NoResult
    /\ file_data = <<>>
    /\ applied = NotApplied

NextTok ==
    \/ TokeniseChar
    \/ TokeniseEof

SpecTok == InitTok /\ [][NextTok]_vars

---------------------------------------------------------------------------
(* SpecParse: the parser alone, on token sequences *)

TokenSymbols ==
    { StringToken("Word", kw_struct, 0), StringToken("Word", name_a, 0),
      StringToken("Word", name_n, 0), IntToken(2, 0),
      StringToken("NewLine", <<"\n">>, 0),
      StringToken("OpenBrace", <<"{">>, 0), StringToken("CloseBrace", <<"}">>, 0),
      StringToken("Comma", <<",">>, 0), StringToken("Colon", <<":">>, 0),
      StringToken("OpenBracket", <<"[">>, 0), StringToken("CloseBracket", <<"]">>, 0),
      StringToken("Semicolon", <<";">>, 0) }

\* Tokens numbered as the tokeniser numbers them: a token is on the line after
\* the NewLine tokens before it
WithLines(syms) ==
    [i \in 1..Len(syms) |->
        [syms[i] EXCEPT !.line_no =
            1 + Cardinality({j \in 1..(i - 1) : syms[j].kind = "NewLine"})]]

ElementTokens ==
    { <<StringToken("Word", name_n, 0), StringToken("Colon", <<":">>, 0),
        StringToken("Word", name_a, 0)>>,
      <<StringToken("Word", name_y, 0), StringToken("Colon", <<":">>, 0),
        StringToken("OpenBracket", <<"[">>, 0), StringToken("Word", name_a, 0),
        StringToken("Semicolon", <<";">>, 0), StringToken("Word", name_n, 0),
        StringToken("CloseBracket", <<"]">>, 0)>>,
      <<StringToken("Word", name_x, 0), StringToken("Colon", <<":">>, 0),
        StringToken("OpenBracket", <<"[">>, 0), StringToken("Word", name_b, 0),
        StringToken("Semicolon", <<";">>, 0), IntToken(2, 0),
        StringToken("CloseBracket", <<"]">>, 0)>> }

\* element { , element } [ , ]
BodyTokens(elems, trailing) ==
    Flatten([j \in 1..Len(elems) |->
                 elems[j] \o (IF j < Len(elems) \/ trailing
                              THEN <<StringToken("Comma", <<",">>, 0)>> ELSE <<>>)])

StructTokens(name, elems, trailing) ==
    <<StringToken("Word", kw_struct, 0), StringToken("Word", name, 0),
      StringToken("OpenBrace", <<"{">>, 0)>>
        \o BodyTokens(elems, trailing) \o <<StringToken("CloseBrace", <<"}">>, 0)>>

StructTexts(name) ==
    {StructTokens(name, elems, trailing) :
        elems \in UNION {[1..k -> ElementTokens] : k \in 0..MaxParseElems},
        trailing \in BOOLEAN}

\* A struct with one token left out, put in or replaced
Mutations(text) ==
    {SubSeq(text, 1, k - 1) \o SubSeq(text, k + 1, Len(text)) : k \in 1..Len(text)}
        \cup {SubSeq(text, 1, k) \o <<t>> \o SubSeq(text, k + 1, Len(text)) :
                 k \in 0..Len(text), t \in TokenSymbols}
        \cup {SubSeq(text, 1, k - 1) \o <<t>> \o SubSeq(text, k + 1, Len(text)) :
                 k \in 1..Len(text), t \in TokenSymbols}

TokenTexts ==
    UNION {[1..k -> TokenSymbols] : k \in 0..MaxTokens}
        \cup UNION {Mutations(text) : text \in StructTexts(root)}
        \cup {first \o <<StringToken("NewLine", <<"\n">>, 0)>> \o second :
                 first \in StructTexts(name_a), second \in StructTexts(root)}
        \cup UNION {Prefixes(StructTokens(name_a, <<>>, FALSE) \o second) :
                        second \in StructTexts(root)}
        \cup {StructTokens(name_a, <<>>, FALSE) \o <<StringToken("NewLine", <<"\n">>, 0), t>> :
                 t \in TokenSymbols}

InitParse ==
    /\ pc = "parse"
    /\ stages = <<>>
    /\ src_data = <<>>
    /\ src_pos = 0
    /\ tok_line_no = 1
    /\ tok_state = EmptyState
    /\ \E text \in TokenTexts : tokens = WithLines(text)
    /\ tok_starts = <<>>
    /\ tok_pos = 0
    /\ parse_state = ParserEmptyState
    /\ schema = <<>>
    /\ types_map = EmptyMap
    /\ types_resolved = {}
    /\ dependant_types = EmptyMap
    /\ types_stack = <<>>
    /\ result = NoResult
    /\ file_data = <<>>
    /\ applied = NotApplied

NextParse ==
    \/ ParseToken
    \/ ParseEof

SpecParse == InitParse /\ [][NextParse]_vars

---------------------------------------------------------------------------
(* The struct-embedding graph of a list of structs *)

StructNameSet(structs) == {structs[i].name : i \in 1..Len(structs)}

\* An edge A -> B for every element (plain or array) of struct A whose type is B.
EmbedEdges(structs) ==
    UNION {{<<structs[i].name, member_typename(structs[i].elements[m])>> :
                m \in 1..Len(structs[i].elements)} : i \in 1..Len(structs)}

Succ(E, S) == {e[2] : e \in {d \in E : d[1] \in S}}

RECURSIVE ReachFrom(_, _)
ReachFrom(E, S) == IF Succ(E, S) \subseteq S THEN S ELSE ReachFrom(E, S \cup Succ(E, S))

OnCycle(E, v) == v \in ReachFrom(E, Succ(E, {v}))

ReachesCycle(E, v) == \E c \in ReachFrom(E, {v}) : OnCycle(E, c)

\* The least set R with: a struct is in R when each of its element types is a
\* built-in or in R.
RECURSIVE Resolvable(_, _)
Resolvable(map, R) ==
    LET R2 == R \cup {k \in DOMAIN map :
                        \A m \in 1..Len(map[k].elements) :
                            \/ is_builtin_type(member_typename(map[k].elements[m]))
                            \/ member_typename(map[k].elements[m]) \in R}
    IN  IF R2 = R THEN R ELSE Resolvable(map, R2)

Unresolvable(map) == (DOMAIN map) \ Resolvable(map, {})

MapAsSeq(map) ==
    LET o == CHOOSE o \in Orders(DOMAIN map) : TRUE
    IN  [i \in 1..Len(o) |-> map[o[i]]]

HasDuplicateNames(structs) ==
    \E i, j \in 1..Len(structs) : i < j /\ structs[i].name = structs[j].name

HasUnknownType(structs) ==
    \E e \in EmbedEdges(structs) : ~is_builtin_type(e[2]) /\ e[2] \notin StructNameSet(structs)

\* The identifier length of array element i of struct s resolves, by name, to the
\* first preceding sibling with that name, and that sibling is a plain element
\* of a built-in integer type.
ArrayLenResolves(s, i) ==
    LET id == s.elements[i].kind.length.id
        before == {j \in 1..(i - 1) : s.elements[j].name = id}
    IN  /\ before # {}
        /\ s.elements[Min(before)].kind.tag = "TypeName"
        /\ s.elements[Min(before)].kind.kind \in
               {int8, int16_be, int16_le, int32_be, int32_le, int64_be, int64_le,
                uint8, uint16_be, uint16_le, uint32_be, uint32_le, uint64_be, uint64_le}

AllArrayLensResolve(structs) ==
    \A k \in 1..Len(structs) : \A i \in 1..Len(structs[k].elements) :
        (/\ structs[k].elements[i].kind.tag = "ArrayElem"
         /\ structs[k].elements[i].kind.length.tag = "Identifier")
            => ArrayLenResolves(structs[k], i)

\* The graph is a DAG whose leaves are all built-in types.
IsDagToBuiltins(structs) ==
    /\ ~HasUnknownType(structs)
    /\ \A v \in StructNameSet(structs) : ~OnCycle(EmbedEdges(structs), v)

Compiled == pc = "done" /\ result.status = "ok"
Failed(code) == pc = "done" /\ result.status = "err" /\ result.err.code = code

---------------------------------------------------------------------------
(* Properties *)

\* C1 (as stated): a parsed source compiles if and only if the struct-embedding
\* graph is a DAG whose leaves are all built-in types, a struct named root is
\* present and every identifier array length resolves to a preceding sibling of
\* built-in integer type.
C1_Original ==
    pc = "done" =>
        (result.status = "ok" <=>
            /\ IsDagToBuiltins(schema)
            /\ root \in StructNameSet(schema)
            /\ AllArrayLensResolve(schema))

\* C1 (amended): a parsed source compiles if and only if no two structs share a
\* name, the struct-embedding graph is a DAG whose leaves are all built-in
\* types, a struct named root is present and every identifier array length
\* resolves to a preceding sibling of built-in integer type.
C1_CompileIff ==
    pc = "done" =>
        (result.status = "ok" <=>
            /\ ~HasDuplicateNames(schema)
            /\ IsDagToBuiltins(schema)
            /\ root \in StructNameSet(schema)
            /\ AllArrayLensResolve(schema))

C1_Witness ==
    /\ Compiled
    /\ Len(schema) = 3
    /\ \E k \in 1..3 : \E i \in 1..Len(schema[k].elements) :
           schema[k].elements[i].kind.tag = "ArrayElem"
    /\ \E k \in 1..3 : \E i \in 1..Len(schema[k].elements) :
           schema[k].elements[i].kind = TypeName(name_a)

\* C8: a RecursiveTypes error lists, without repeats, exactly the structs outside
\* the least set R (a struct is in R when each of its element types is a
\* built-in or in R), with the minimum line_no of the listed structs; and once
\* duplicates and unknown types are excluded, the type check fails with
\* RecursiveTypes if and only if some struct is outside R.
C8_RecursiveTypes ==
    /\ Failed("RecursiveTypes") =>
          /\ Range(result.err.args) = Unresolvable(types_map)
          /\ Len(result.err.args) = Cardinality(Unresolvable(types_map))
          /\ result.err.line_no = Min({types_map[k].line_no : k \in Unresolvable(types_map)})
    /\ (pc = "done" /\ result.status = "err"
            /\ result.err.code \notin {"DuplicateType", "UnknownType"})
          => (result.err.code = "RecursiveTypes" <=> Unresolvable(types_map) # {})
    /\ (pc \in {"check_root_element", "check_array_lengths"} \/ Compiled)
          => Unresolvable(types_map) = {}

C8_Witness ==
    /\ Failed("RecursiveTypes")
    /\ Len(result.err.args) = 2
    /\ Cardinality(DOMAIN types_map) = 3
    /\ result.err.line_no > 1

\* C9 (as stated): when the worklist is empty, every struct that is not in the
\* resolved set lies on a directed cycle of the struct-embedding graph.
C9_Original ==
    (pc = "worklist" /\ types_stack = <<>>) =>
        \A k \in (DOMAIN types_map) \ types_resolved :
            OnCycle(EmbedEdges(MapAsSeq(types_map)), k)

\* C9 (amended): when the worklist is empty, every struct that is not in the
\* resolved set lies on a directed cycle of the struct-embedding graph or
\* embeds, directly or through other structs, a struct that lies on one; and
\* no struct in the resolved set does.
C9_UnresolvedReachCycle ==
    (pc = "worklist" /\ types_stack = <<>>) =>
        \A k \in DOMAIN types_map :
            k \notin types_resolved <=> ReachesCycle(EmbedEdges(MapAsSeq(types_map)), k)

C9_Witness ==
    /\ pc = "worklist"
    /\ types_stack = <<>>
    /\ \E k \in (DOMAIN types_map) \ types_resolved :
           ~OnCycle(EmbedEdges(MapAsSeq(types_map)), k)
    /\ types_resolved # {}

\* C10: the type check fails with DuplicateType exactly when two structs of the
\* Schema share a name; the error names the struct at the first position (in
\* source order) whose name already occurred earlier, and carries the line_no
\* of that later definition.
C10_DuplicateType ==
    pc # "build_structs_map" =>
        LET dups == {j \in 1..Len(schema) :
                        \E i \in 1..(j - 1) : schema[i].name = schema[j].name}
        IN  /\ (result.status = "err" /\ result.err.code = "DuplicateType") <=> dups # {}
            /\ dups # {} =>
                 /\ pc = "done"
                 /\ result.err.args = <<schema[Min(dups)].name>>
                 /\ result.err.line_no = schema[Min(dups)].line_no

C10_Witness ==
    /\ Failed("DuplicateType")
    /\ Len(schema) = 3
    /\ schema[1].name # schema[2].name
    /\ result.err.line_no = schema[3].line_no

---------------------------------------------------------------------------
(* Properties of apply *)

RECURSIVE LeafSeq(_)
RECURSIVE LeafSeqFrom(_, _)

\* The Nuggets that carry a value, in tree order.
LeafSeq(n) == IF n.value.some THEN <<n>> ELSE LeafSeqFrom(n.children, 1)

LeafSeqFrom(children, i) ==
    IF i > Len(children) THEN <<>>
    ELSE LeafSeq(children[i]) \o LeafSeqFrom(children, i + 1)

Span(n) == n.start .. (n.start + n.len - 1)

RECURSIVE SumLen(_, _)
SumLen(children, k) == IF k = 0 THEN 0 ELSE SumLen(children, k - 1) + children[k].len

\* n.len is the sum of its children's len, child i starts where the children
\* before it end, and the same holds below n.
RECURSIVE SumOfChildren(_)
SumOfChildren(n) ==
    n.value.some \/
        /\ n.len = SumLen(n.children, Len(n.children))
        /\ \A i \in 1..Len(n.children) :
              /\ n.children[i].start = n.start + SumLen(n.children, i - 1)
              /\ SumOfChildren(n.children[i])

\* C2: when apply succeeds, the spans of the Nuggets that carry a value are
\* pairwise disjoint, their union is [0, root.len), root.start is 0 and
\* root.len is at most the number of input bytes.
C2_LeafSpans ==
    (pc = "applied" /\ applied.status = "ok") =>
        LET leaves == LeafSeq(applied.nugget)
        IN  /\ \A i, j \in 1..Len(leaves) : i < j => Span(leaves[i]) \cap Span(leaves[j]) = {}
            /\ UNION {Span(leaves[i]) : i \in 1..Len(leaves)} = 0..(applied.nugget.len - 1)
            /\ applied.nugget.start = 0
            /\ applied.nugget.len <= Len(file_data)

C2_Witness ==
    /\ pc = "applied"
    /\ applied.status = "ok"
    /\ Len(LeafSeq(applied.nugget)) = 3
    /\ applied.nugget.len = 3
    /\ Len(file_data) = 4
    /\ \E i \in 1..Len(applied.nugget.children) :
           /\ applied.nugget.children[i].name = name_y
           /\ Len(applied.nugget.children[i].children) = 2

\* C3: in the Nugget tree returned by apply, every struct or array Nugget has
\* len equal to the sum of its children's len, and its i-th child starts at its
\* own start plus the len of the children before it, at every depth.
C3_SumOfChildren ==
    (pc = "applied" /\ applied.status = "ok") => SumOfChildren(applied.nugget)

\* an array of structs whose second struct has a child that does not start at 0
C3_Witness ==
    /\ pc = "applied"
    /\ applied.status = "ok"
    /\ \E i \in 1..Len(applied.nugget.children) :
           LET arr == applied.nugget.children[i]
           IN  /\ arr.name = name_y
               /\ Len(arr.children) = 2
               /\ Len(arr.children[2].children) = 2
               /\ arr.children[2].children[2].start > arr.children[2].start
               /\ arr.children[2].start > arr.start

\* C4: for a compiled schema, apply fails only when a primitive decode needs
\* more bytes than remain in the input.
C4_FailsOnlyWhenTruncated ==
    (pc = "applied" /\ applied.status = "panic") => applied.why = "Truncated"


\* The names of the built-in types
BuiltinNames ==
    {int8, int16_be, int16_le, int32_be, int32_le, int64_be, int64_le,
     uint8, uint16_be, uint16_le, uint32_be, uint32_le, uint64_be, uint64_le,
     f32_be, f32_le, f64_be, f64_le, ascii}

RECURSIVE StructWellBuilt(_, _, _)
RECURSIVE SingleWellBuilt(_, _, _)
RECURSIVE ArrayWellBuilt(_, _, _, _)

\* n is what a struct defn is built to: one child per element, in order and
\* under the element's name, each beginning where the one before ends
StructWellBuilt(n, defn, types) ==
    /\ n.value = None
    /\ Len(n.children) = Len(defn.elements)
    /\ \A i \in 1..Len(n.children) :
          /\ n.children[i].name = defn.elements[i].name
          /\ n.children[i].start = n.start + SumLen(n.children, i - 1)
          /\ IF defn.elements[i].kind.tag = "TypeName"
             THEN SingleWellBuilt(n.children[i], defn.elements[i].kind.kind, types)
             ELSE ArrayWellBuilt(n.children[i], defn.elements[i].kind,
                                 SubSeq(n.children, 1, i - 1), types)

\* n is a single element of type typename: a leaf decoding the bytes of a
\* built-in at n.start, or the Nugget of the struct of that name
SingleWellBuilt(n, typename, types) ==
    IF typename \in BuiltinNames
    THEN LET defn == get_builtin_types(typename)
         IN  /\ n.value.some
             /\ n.children = <<>>
             /\ n.len = defn.size
             /\ n.value.val = decode_value(defn, SubSeq(file_data, n.start + 1,
                                                        n.start + n.len))
    ELSE StructWellBuilt(n, types[typename], types)

\* The count of an array: n for Static(n), the number that the value of the
\* first earlier sibling named id reads as for Identifier(id)
ArrayCount(length, siblings) ==
    IF length.tag = "Static" THEN length.n
    ELSE LET named == {i \in 1..Len(siblings) : siblings[i].name = length.id}
         IN  ParseDigits(siblings[Min(named)].value.val, 0)

\* arr is what an array element is built to
ArrayWellBuilt(arr, kind, siblings, types) ==
    LET count == ArrayCount(kind.length, siblings)
    IN  /\ arr.value = None
        /\ Len(arr.children) = count
        /\ arr.len = SumLen(arr.children, count)
        /\ \A k \in 1..count :
              /\ arr.children[k].name = NatToString(k - 1)
              /\ arr.children[k].start = arr.start + SumLen(arr.children, k - 1)
              /\ SingleWellBuilt(arr.children[k], kind.kind, types)

Applied == pc = "applied" /\ applied.status = "ok"

\* C25: an array element is built to one Nugget with value None whose children
\* are exactly count Nuggets named "0", "1", ..., in order, each a single
\* element of the array's element type at the running offset; count is n for
\* Static(n) and the decoded value of the referenced earlier sibling for
\* Identifier(id); with count 0 the Nugget has no children and len 0.
C25_ArrayNugget ==
    Applied => StructWellBuilt(applied.nugget, types_map[root], types_map)

\* root holds an array of count 0 behind its length, and nothing else
C25_Witness ==
    /\ Applied
    /\ Len(applied.nugget.children) = 2
    /\ applied.nugget.children[1].value = Some(<<"0">>)
    /\ applied.nugget.children[2].name = name_y
    /\ applied.nugget.children[2].children = <<>>
    /\ applied.nugget.children[2].len = 0
    /\ applied.nugget.len = 1

\* root holds an array of two structs of one byte each
C25_WitnessStructs ==
    /\ Applied
    /\ Len(applied.nugget.children) = 2
    /\ applied.nugget.children[1].value = Some(<<"2">>)
    /\ Len(applied.nugget.children[2].children) = 2
    /\ applied.nugget.children[2].children[2].name = <<"1">>
    /\ applied.nugget.children[2].children[2].start = 2
    /\ ~applied.nugget.children[2].children[2].value.some

\* root holds a static array of two int16_be
C25_WitnessStatic ==
    /\ Applied
    /\ Len(applied.nugget.children) = 1
    /\ applied.nugget.children[1].name = name_z
    /\ Len(applied.nugget.children[1].children) = 2
    /\ applied.nugget.children[1].len = 4


RECURSIVE TextArraysAreLeaves(_, _, _)

\* Below the Nugget n of a struct defn, every array of ascii is one leaf: a
\* value that is the characters of its bytes one after the other, no children
TextArraysAreLeaves(n, defn, types) ==
    /\ Len(n.children) = Len(defn.elements)
    /\ \A i \in 1..Len(defn.elements) :
          LET kind == defn.elements[i].kind
              child == n.children[i]
          IN  IF kind.tag = "ArrayElem" /\ kind.kind = ascii
              THEN /\ child.children = <<>>
                   /\ child.value =
                          Some([k \in 1..child.len |-> CharOf(file_data[child.start + k])])
              ELSE IF kind.tag = "TypeName" /\ kind.kind \in DOMAIN types
              THEN TextArraysAreLeaves(child, types[kind.kind], types)
              ELSE TRUE

\* C26: a struct with fields len: int8 and value: [ascii; len] applied to the
\* bytes 04 'a' 'b' 'c' 'd' yields for value one Nugget with start 1, len 4,
\* value Some("abcd") and no children; in general an array of ascii is one leaf
\* whose value is the concatenation of the decoded characters.
C26_TextArrayLeaf ==
    Applied => TextArraysAreLeaves(applied.nugget, types_map[root], types_map)

\* What the code builds for the test's schema and bytes: value has four
\* children, one leaf per character, and no value of its own
C26_FourLeaves ==
    /\ Applied
    /\ Len(schema) = 3
    /\ file_data = <<4, 97, 98, 99, 100>>
    /\ LET string == applied.nugget.children[1].children[1]
           value == string.children[2]
       IN  /\ string.children[1].value = Some(<<"4">>)
           /\ value.start = 1
           /\ value.len = 4
           /\ value.value = None
           /\ [k \in 1..4 |-> value.children[k].value.val] =
                  << <<"a">>, <<"b">>, <<"c">>, <<"d">> >>

\* The size of a built-in, told from its name
SizeByName(name) ==
    CASE name \in {int8, uint8, ascii} -> 1
      [] name \in {int16_be, int16_le, uint16_be, uint16_le} -> 2
      [] name \in {int32_be, int32_le, uint32_be, uint32_le, f32_be, f32_le} -> 4
      [] name \in {int64_be, int64_le, uint64_be, uint64_le, f64_be, f64_le} -> 8

RECURSIVE ValueIffPrimitive(_, _, _)

\* n, built for an element of type typename, has a value exactly if typename
\* is a built-in, and then no children and the built-in's size; the Nugget of
\* a struct has none, nor have the Nuggets of its arrays, and so on below
ValueIffPrimitive(n, typename, types) ==
    IF typename \in BuiltinNames
    THEN n.value.some /\ n.children = <<>> /\ n.len = SizeByName(typename)
    ELSE /\ ~n.value.some
         /\ Len(n.children) = Len(types[typename].elements)
         /\ \A i \in 1..Len(n.children) :
               LET kind == types[typename].elements[i].kind
                   child == n.children[i]
               IN  IF kind.tag = "TypeName"
                   THEN ValueIffPrimitive(child, kind.kind, types)
                   ELSE /\ ~child.value.some
                        /\ \A k \in 1..Len(child.children) :
                              ValueIffPrimitive(child.children[k], kind.kind, types)

\* C27: in every Nugget tree returned by apply a Nugget has a value if and only
\* if it was produced by decoding a single built-in primitive; such a Nugget
\* has no children and its len is the built-in's size; every struct Nugget and
\* every array Nugget has value None.
C27_ValueIffPrimitive ==
    Applied => ValueIffPrimitive(applied.nugget, root, types_map)

\* root holds a uint16_le leaf of two bytes and a struct a that holds an int8
C27_Witness ==
    /\ Applied
    /\ Len(applied.nugget.children) = 2
    /\ applied.nugget.children[1].name = name_m
    /\ applied.nugget.children[1].value = Some(<<"2", "5", "7">>)
    /\ applied.nugget.children[1].len = 2
    /\ applied.nugget.children[2].name = name_x
    /\ applied.nugget.children[2].value = None
    /\ Len(applied.nugget.children[2].children) = 1
    /\ applied.nugget.children[2].children[1].value = Some(<<"-", "1">>)

\* The class of a built-in, told from its name
ClassByName(name) ==
    IF name = ascii THEN "Text"
    ELSE IF name[1] = "f" THEN "Float"
    ELSE "Integer"

\* The type names that the elements of the struct root refer to
RootKinds == {schema[1].elements[i].kind.kind : i \in 1..Len(schema[1].elements)}

\* C28: the built-in registry is the closed set of 19 names and is_builtin_type
\* is true for exactly these; the registered size is 1 for int8, uint8 and
\* ascii, 2 for the 16-bit, 4 for the 32-bit and 8 for the 64-bit types, and a
\* decode consumes exactly that size, so that the element after a primitive
\* begins that many bytes further; the class is Integer for int* and uint*,
\* Float for f32* and f64*, Text for ascii.
C28_Registry ==
    /\ Cardinality(BuiltinNames) = 19
    /\ \A name \in RootKinds :
          /\ is_builtin_type(name) <=> name \in BuiltinNames
          /\ name \in BuiltinNames =>
                /\ get_builtin_types(name).size = SizeByName(name)
                /\ get_builtin_types(name).class = ClassByName(name)
                /\ \A class \in {"Integer", "Float", "Text"} :
                      is_type_class(name, class) <=> class = ClassByName(name)
          /\ name \notin BuiltinNames =>
                \A class \in {"Integer", "Float", "Text"} : ~is_type_class(name, class)
    /\ pc \in {"done", "applied"} =>
          (result.status = "ok" <=> RootKinds \subseteq BuiltinNames \cup {name_a})
    /\ Applied =>
          LET children == applied.nugget.children
          IN  /\ Len(children) = Len(schema[1].elements)
              /\ children[1].start = 0
              /\ \A i \in 1..Len(children) :
                    LET name == schema[1].elements[i].kind.kind
                        size == IF name \in BuiltinNames THEN SizeByName(name) ELSE 0
                    IN  /\ children[i].len = size
                        /\ i < Len(children) =>
                              children[i + 1].start = children[i].start + size
                        /\ i = Len(children) =>
                              applied.nugget.len = children[i].start + size

\* an f64_le and an int64_be were decoded from the bytes 1, 2, 3, ..., and the
\* uint8 behind them is the 17th byte
C28_Witness ==
    /\ Applied
    /\ schema[1].elements[1].kind.kind = f64_le
    /\ schema[1].elements[2].kind.kind = int64_be
    /\ applied.nugget.children[2].start = 8
    /\ applied.nugget.children[3].start = 16
    /\ applied.nugget.children[3].value = Some(<<"1", "7">>)
    /\ applied.nugget.len = 17

\* a name close to a built-in one was refused as an unknown type
C28_WitnessOther ==
    /\ Failed("UnknownType")
    /\ result.err.args = << <<"i", "n", "t", "1", "6">> >>
    /\ schema[1].elements[2].kind.kind = ascii


---------------------------------------------------------------------------
(* Properties of the whole compilation *)

StageOrder ==
    <<"tokenise", "parse", "build_structs_map", "check_all_types_defined",
      "check_types_no_loops", "check_root_element", "check_array_lengths">>

\* The stage that returns an error with the given code
StageOfCode(code) ==
    CASE code \in {"LeadingZero", "IntegerTooLarge", "UnknownSymbol", "UnexpectedSymbol",
                   "UnclosedBlockComment"} -> "tokenise"
      [] code \in {"ParseError", "IncompleteInput"} -> "parse"
      [] code = "DuplicateType" -> "build_structs_map"
      [] code = "UnknownType" -> "check_all_types_defined"
      [] code = "RecursiveTypes" -> "check_types_no_loops"
      [] code = "MissingRootElement" -> "check_root_element"
      [] code \in {"BadArrayLen", "BadArrayLenType"} -> "check_array_lengths"
      [] OTHER -> "none"

IsPrefix(s, t) == Len(s) <= Len(t) /\ s = SubSeq(t, 1, Len(s))

\* The outcome the checks give a parsed schema when they run in their order
\* and the first failure is returned
FirstFailure(structs) ==
    IF HasDuplicateNames(structs) THEN {"DuplicateType"}
    ELSE IF HasUnknownType(structs) THEN {"UnknownType"}
    ELSE IF \E v \in StructNameSet(structs) : OnCycle(EmbedEdges(structs), v)
    THEN {"RecursiveTypes"}
    ELSE IF root \notin StructNameSet(structs) THEN {"MissingRootElement"}
    ELSE IF ~AllArrayLensResolve(structs) THEN {"BadArrayLen", "BadArrayLenType"}
    ELSE {}

\* C6: the stages run in the order tokenise, parse, duplicates, unknown types,
\* cycles, root presence, array lengths; the error returned is that of the
\* first stage that fails and no stage runs after it (so an unknown type with
\* no root gives UnknownType and a duplicate name with a cycle gives
\* DuplicateType); success is returned only when every stage has run and passed.
C6_StagesInOrder ==
    /\ IsPrefix(stages, StageOrder)
    /\ result.status = "err" =>
          /\ pc = "done"
          /\ stages # <<>>
          /\ StageOfCode(result.err.code) = stages[Len(stages)]
    /\ result.status = "ok" => (pc = "done" /\ stages = StageOrder)
    /\ (pc = "done" /\ Len(stages) >= 3) =>
          IF FirstFailure(schema) = {}
          THEN result.status = "ok"
          ELSE result.status = "err" /\ result.err.code \in FirstFailure(schema)

\* An unknown type in a source with no root struct, reported as UnknownType
C6_Witness ==
    /\ Failed("UnknownType")
    /\ src_data # <<>>
    /\ root \notin StructNameSet(schema)
    /\ ~HasDuplicateNames(schema)
    /\ stages = SubSeq(StageOrder, 1, 4)

\* A duplicate name together with a cycle, reported as DuplicateType
C6_WitnessDuplicate ==
    /\ Failed("DuplicateType")
    /\ src_data # <<>>
    /\ \E v \in StructNameSet(schema) : OnCycle(EmbedEdges(schema), v)
    /\ stages = SubSeq(StageOrder, 1, 3)

\* A source that passes every stage
C6_WitnessSuccess ==
    /\ Compiled
    /\ src_data # <<>>
    /\ Len(schema) = 2
    /\ stages = StageOrder

\* C7: every error returned by a compile stage (tokeniser, parser, type
\* check, correctness check) carries a 1-based line number, line_no >= 1.
C7_LineNumbers ==
    result.status = "err" => result.err.line_no >= 1


---------------------------------------------------------------------------
(* Properties of the type check and the correctness checks *)

\* The elements <<i, m>> of structs whose referenced type name (the kind of an
\* array, never its length) is neither a built-in name nor a struct name
UnknownTypeElems(structs) ==
    {im \in UNION {{<<i, m>> : m \in 1..Len(structs[i].elements)} : i \in 1..Len(structs)} :
        LET kind == structs[im[1]].elements[im[2]].kind
        IN  /\ kind.kind \notin BuiltinNames
            /\ kind.kind \notin StructNameSet(structs)}

\* C11: with no duplicate struct names, the type check fails with
\* UnknownType(name) if and only if some element's referenced type name (an
\* array's element kind, never its length identifier) is neither one of the 19
\* built-in names nor a struct name; the error names that type and carries the
\* line of that element.
C11_UnknownType ==
    (pc = "done" /\ ~HasDuplicateNames(schema)) =>
        /\ Cardinality(BuiltinNames) = 19
        /\ Failed("UnknownType") <=> UnknownTypeElems(schema) # {}
        /\ Failed("UnknownType") =>
              \E im \in UnknownTypeElems(schema) :
                  LET elem == schema[im[1]].elements[im[2]]
                  IN  /\ result.err.args = <<elem.kind.kind>>
                      /\ result.err.line_no = elem.line_no

\* A schema of arrays only, one of them of the unknown kind b, reported with
\* the line of that array element
C11_Witness ==
    /\ Failed("UnknownType")
    /\ result.err.args = <<name_b>>
    /\ \E im \in UnknownTypeElems(schema) :
          /\ schema[im[1]].elements[im[2]].kind.tag = "ArrayElem"
          /\ result.err.line_no = schema[im[1]].elements[im[2]].line_no
          /\ result.err.line_no > 2
    /\ \A i \in 1..Len(schema) : \A m \in 1..Len(schema[i].elements) :
          schema[i].elements[m].kind.tag = "ArrayElem"

\* C12: the correctness check returns MissingRootElement if and only if the
\* map has no key named root, and it does so before any array length is
\* checked: a schema with no root and a bad array length gives
\* MissingRootElement.
C12_MissingRoot ==
    (pc = "done" /\ "check_root_element" \in Range(stages)) =>
        /\ Failed("MissingRootElement") <=> root \notin DOMAIN types_map
        /\ Failed("MissingRootElement") => "check_array_lengths" \notin Range(stages)
        /\ (root \notin DOMAIN types_map /\ ~AllArrayLensResolve(schema)) =>
              Failed("MissingRootElement")

\* No root, and an array whose length identifier names no sibling
C12_Witness ==
    /\ Failed("MissingRootElement")
    /\ schema # <<>>
    /\ root \notin StructNameSet(schema)
    /\ ~AllArrayLensResolve(schema)
    /\ result.err.line_no = 0


IntegerNames ==
    {int8, int16_be, int16_le, int32_be, int32_le, int64_be, int64_le,
     uint8, uint16_be, uint16_le, uint32_be, uint32_le, uint64_be, uint64_le}

\* What the claim says of element i of struct s
ArrayLenVerdict(s, i) ==
    LET kind == s.elements[i].kind
        before == {j \in 1..(i - 1) : s.elements[j].name = kind.length.id}
    IN  IF kind.tag # "ArrayElem" \/ kind.length.tag = "Static" THEN "Ok"
        ELSE IF before = {} THEN "BadArrayLen"
        ELSE IF /\ s.elements[Min(before)].kind.tag = "TypeName"
                /\ s.elements[Min(before)].kind.kind \in IntegerNames
        THEN "Ok"
        ELSE "BadArrayLenType"

\* C13: for an array element at position i with length Identifier(id): if no
\* element before position i in the same struct is named id the check returns
\* BadArrayLen(id) (an element of that name at position i or later does not
\* count); if there is one (the first such decides) and it is not a plain
\* element of a built-in Integer type (a float, ascii, a struct or an array) the
\* check returns BadArrayLenType(id); a Static length is never rejected.
C13_ArrayLengths ==
    (pc = "done" /\ "check_array_lengths" \in Range(stages)) =>
        /\ result.status = "ok" <=>
              \A k \in 1..Len(schema) : \A i \in 1..Len(schema[k].elements) :
                  ArrayLenVerdict(schema[k], i) = "Ok"
        /\ result.status = "err" =>
              \E k \in 1..Len(schema) : \E i \in 1..Len(schema[k].elements) :
                  /\ ArrayLenVerdict(schema[k], i) = result.err.code
                  /\ result.err.args = <<schema[k].elements[i].kind.length.id>>
                  /\ \A h \in 1..(i - 1) : ArrayLenVerdict(schema[k], h) = "Ok"

\* BadArrayLen for an array named n of length n followed by an integer n: the
\* element itself and the later one do not count
C13_Witness ==
    /\ Failed("BadArrayLen")
    /\ Len(schema[1].elements) = 2
    /\ schema[1].elements[1].name = name_n
    /\ schema[1].elements[1].kind = ArrayElem(uint8, Identifier(name_n))
    /\ schema[1].elements[2].kind = TypeName(uint8)

\* BadArrayLenType for a float sibling, although an integer of the same name
\* follows it
C13_WitnessType ==
    /\ Failed("BadArrayLenType")
    /\ Len(schema[1].elements) = 3
    /\ schema[1].elements[1].kind = TypeName(f32_be)
    /\ schema[1].elements[2].kind = TypeName(uint8)
    /\ schema[1].elements[3].name = name_y

\* A signed integer length and a static length, both accepted
C13_WitnessOk ==
    /\ Compiled
    /\ Len(schema[1].elements) = 3
    /\ schema[1].elements[1].kind = TypeName(int16_le)
    /\ schema[1].elements[2].kind = ArrayElem(uint8, Static(2))
    /\ schema[1].elements[3].name = name_y


---------------------------------------------------------------------------
(* Properties of the tokeniser *)

\* The number of newline characters among the first k characters of text
RECURSIVE NewlinesIn(_, _)
NewlinesIn(text, k) ==
    IF k = 0 THEN 0
    ELSE NewlinesIn(text, k - 1) + (IF text[k] = "\n" THEN 1 ELSE 0)

\* C20: each emitted token's line_no is 1 plus the number of newline
\* characters that precede its first character in the input (newlines inside
\* comments included); a NewLine token carries the number of the line it ends.
C20_TokenLines ==
    /\ Len(tok_starts) = Len(tokens)
    /\ \A i \in 1..Len(tokens) :
          /\ tokens[i].line_no = 1 + NewlinesIn(src_data, tok_starts[i] - 1)
          /\ tokens[i].kind = "NewLine" =>
                /\ src_data[tok_starts[i]] = "\n"
                /\ tokens[i].line_no = NewlinesIn(src_data, tok_starts[i])

\* A word on line 2, after a newline inside a block comment
C20_Witness ==
    /\ pc = "parse"
    /\ Len(src_data) >= 2
    /\ src_data[1] = "/"
    /\ src_data[2] = "*"
    /\ Len(tokens) = 1
    /\ tokens[1].kind = "Word"
    /\ tokens[1].line_no = 2

\* A NewLine token ending line 2 and a word on line 3, after a line comment
C20_WitnessNewLine ==
    /\ pc = "parse"
    /\ Len(tokens) = 2
    /\ tokens[1].kind = "NewLine"
    /\ tokens[1].line_no = 2
    /\ tokens[2].kind = "Word"
    /\ tokens[2].line_no = 3


\* The number of consecutive decimal digits of text from position p on
RECURSIVE DigitRun(_, _)
DigitRun(text, p) ==
    IF p < 1 \/ p > Len(text) THEN 0
    ELSE IF text[p] \notin DigitChars THEN 0
    ELSE 1 + DigitRun(text, p + 1)

\* The decimal value of a sequence of at most 9 digits
RECURSIVE DecimalValue(_)
DecimalValue(digits) ==
    IF digits = <<>> THEN 0
    ELSE DecimalValue(SubSeq(digits, 1, Len(digits) - 1)) * 10
             + DigitValue(digits[Len(digits)])

\* C14: an integer literal of 1 to 9 digits gives one Integer token whose
\* value is the decimal value of its digits; a 10th consecutive digit gives
\* IntegerTooLarge; in every Integer state the accumulator is at most
\* 999999999 and the digit count at most 9.
C14_Integers ==
    /\ tok_state.st = "Integer" =>
          /\ tok_state.num_digits \in 1..9
          /\ tok_state.ival <= 999999999
          /\ tok_state.ival =
                 DecimalValue(SubSeq(src_data, src_pos - tok_state.num_digits + 1, src_pos))
    /\ \A i \in 1..Len(tokens) :
          tokens[i].kind = "Integer" =>
              LET run == DigitRun(src_data, tok_starts[i])
              IN  /\ run \in 1..9
                  /\ tokens[i].is_int
                  /\ tokens[i].ival =
                         DecimalValue(SubSeq(src_data, tok_starts[i], tok_starts[i] + run - 1))
                  /\ i < Len(tokens) => tok_starts[i + 1] >= tok_starts[i] + run
    /\ Failed("IntegerTooLarge") =>
          /\ tok_state.st = "Integer"
          /\ DigitRun(src_data, src_pos - 8) >= 10
    /\ (pc # "tokenise" /\ src_data # <<>> /\ src_data[1] \in DigitChars \ {"0"}) =>
          IF DigitRun(src_data, 1) >= 10
          THEN Failed("IntegerTooLarge")
          ELSE \/ result.status = "err" /\ result.err.code # "IntegerTooLarge"
               \/ /\ tokens # <<>>
                  /\ tokens[1].kind = "Integer"
                  /\ tok_starts[1] = 1

\* The largest literal, 999999999, tokenised as one Integer token
C14_Witness ==
    /\ pc = "parse"
    /\ Len(src_data) = 9
    /\ Len(tokens) = 1
    /\ tokens[1].kind = "Integer"
    /\ tokens[1].ival = 999999999

\* A 10-digit literal refused at its 10th digit
C14_WitnessTooLarge ==
    /\ Failed("IntegerTooLarge")
    /\ src_pos = 9
    /\ tok_state.ival = 999999999


\* The tokeniser is about to read a 0
MeetsZero ==
    /\ pc = "tokenise"
    /\ src_pos < Len(src_data)
    /\ src_data[src_pos + 1] = "0"

\* The step fails with the given code, at the character it was reading
FailsWith(code) ==
    /\ pc' = "done"
    /\ result'.status = "err"
    /\ result'.err.code = code
    /\ src_pos' = src_pos

\* The step takes the 0 into the Word or Integer in progress
TakesZero ==
    /\ pc' = "tokenise"
    /\ tokens' = tokens
    /\ tok_state'.st = tok_state.st
    /\ tok_state'.line_no = tok_state.line_no
    /\ tok_state'.value =
           (IF tok_state.st = "Word" THEN Append(tok_state.value, "0") ELSE <<>>)
    /\ tok_state'.ival = (IF tok_state.st = "Integer" THEN tok_state.ival * 10 ELSE 0)

\* C15 (as stated): a 0 met in the Empty state gives LeadingZero, whatever
\* follows it; a 0 met inside an Integer or a Word is accepted as part of that
\* token.
C15_Original ==
    [][MeetsZero =>
          /\ tok_state.st = "Empty" => FailsWith("LeadingZero")
          /\ tok_state.st \in {"Word", "Integer"} => TakesZero]_vars

\* C15 (amended): a 0 met in the Empty state gives LeadingZero, whatever
\* follows it; a 0 met inside a Word, or inside an Integer of fewer than 9
\* digits, is accepted as part of that token; as the 10th digit of an Integer
\* it gives IntegerTooLarge.
C15_LeadingZero ==
    [][MeetsZero =>
          /\ tok_state.st = "Empty" => FailsWith("LeadingZero")
          /\ tok_state.st = "Word" => TakesZero
          /\ tok_state.st = "Integer" =>
                IF tok_state.num_digits < 9 THEN TakesZero
                ELSE FailsWith("IntegerTooLarge")]_vars

\* LeadingZero for a 0 that follows a space or a token and is followed by
\* another digit
C15_Witness ==
    /\ Failed("LeadingZero")
    /\ src_pos = 1
    /\ Len(src_data) = 3
    /\ src_data[3] = "1"

\* A 0 taken into an Integer, giving 90
C15_WitnessInside ==
    /\ tok_state.st = "Integer"
    /\ tok_state.ival = 90


\* [A-Za-z_][A-Za-z0-9_]*
MatchesWordPattern(value) ==
    /\ value # <<>>
    /\ value[1] \in AsciiLetters \cup {"_"}
    /\ \A k \in 2..Len(value) : value[k] \in AsciiLetters \cup DigitChars \cup {"_"}

\* C16: every Word token has a value matching [A-Za-z_][A-Za-z0-9_]*: an ASCII
\* letter or underscore first, then ASCII letters, ASCII digits or
\* underscores; no other character is ever made part of a Word.
C16_WordPattern ==
    /\ \A i \in 1..Len(tokens) :
          tokens[i].kind = "Word" => MatchesWordPattern(tokens[i].sval)
    /\ tok_state.st = "Word" => MatchesWordPattern(tok_state.value)


\* The positions k, after a comment opened by the /* at positions 1 and 2,
\* where a */ begins
ClosersOfFirstComment(text) ==
    {k \in 3..(Len(text) - 1) : text[k] = "*" /\ text[k + 1] = "/"}

\* C17: a block comment opened by /* ends at the first following */: the
\* characters between are discarded, the tokeniser is in the Empty state right
\* after that */ and goes on from there as from the start of a text, for every
\* comment body, bodies that end in one or more * included.
C17_BlockCommentEnds ==
    (/\ Len(src_data) >= 2
     /\ src_data[1] = "/"
     /\ src_data[2] = "*"
     /\ src_pos >= 2) =>
        LET closers == ClosersOfFirstComment(src_data)
        IN  IF closers = {} \/ src_pos < Min(closers) + 1
            THEN /\ tok_state.st \in {"BlockComment", "EndBlockComment"}
                 /\ tokens = <<>>
            ELSE src_pos = Min(closers) + 1 =>
                    /\ tok_state = EmptyState
                    /\ tokens = <<>>
                    /\ tok_line_no = 1 + NewlinesIn(src_data, src_pos)


\* The input is exhausted and the tokeniser is about to call eof
AtEof == pc = "tokenise" /\ src_pos = Len(src_data)

\* C18: if the input ends in the BlockComment or EndBlockComment state,
\* tokenising fails with UnclosedBlockComment and no token list is returned;
\* if it ends in the LineComment state, tokenising succeeds.
C18_CommentAtEof ==
    [][AtEof =>
          /\ tok_state.st \in {"BlockComment", "EndBlockComment"} =>
                FailsWith("UnclosedBlockComment")
          /\ tok_state.st = "LineComment" =>
                /\ pc' = "parse"
                /\ result' = result
                /\ tokens' = tokens]_vars

\* The input ended right after a * inside a block comment that follows a
\* token: the error is returned, not the token
C18_Witness ==
    /\ Failed("UnclosedBlockComment")
    /\ tok_state.st = "EndBlockComment"
    /\ tokens # <<>>

\* The input ended inside a line comment
C18_WitnessLine ==
    /\ pc = "parse"
    /\ result.status = "none"
    /\ Len(src_data) = 3
    /\ src_data[1] = "/"
    /\ src_data[2] = "/"
    /\ src_data[3] = "a"


\* The text begins with a line comment
BeginsWithLineComment ==
    /\ Len(src_data) >= 2
    /\ src_data[1] = "/"
    /\ src_data[2] = "/"

\* The position of the first newline of the text, or one past its end
FirstNewline ==
    Min({k \in 1..Len(src_data) : src_data[k] = "\n"} \cup {Len(src_data) + 1})

\* C19: a line comment started by // discards every character up to and
\* including the next newline; that newline returns the tokeniser to Empty
\* and pushes no NewLine token, but it still increments the line counter, so a
\* token on the following line gets the next line number.
C19_LineComment ==
    /\ [](BeginsWithLineComment =>
            /\ (src_pos >= 2 /\ src_pos < FirstNewline /\ pc = "tokenise") =>
                  tok_state = LineCommentState
            /\ \A i \in 1..Len(tokens) :
                  /\ tok_starts[i] > FirstNewline
                  /\ tokens[i].line_no >= 2
                  /\ NewlinesIn(src_data, tok_starts[i] - 1) = 1 => tokens[i].line_no = 2)
    /\ [][(pc = "tokenise" /\ src_pos < Len(src_data) /\ tok_state.st = "LineComment") =>
             /\ pc' = "tokenise"
             /\ tokens' = tokens
             /\ src_pos' = src_pos + 1
             /\ IF src_data[src_pos + 1] = "\n"
                THEN tok_state' = EmptyState /\ tok_line_no' = tok_line_no + 1
                ELSE tok_state' = tok_state /\ tok_line_no' = tok_line_no]_vars

\* A word on line 2 as the only token of a text whose line 1 is a comment
C19_Witness ==
    /\ pc = "parse"
    /\ src_data = <<"/", "/", "a", "\n", "a">>
    /\ Len(tokens) = 1
    /\ tokens[1].kind = "Word"
    /\ tokens[1].line_no = 2

---------------------------------------------------------------------------
(* Properties of the parser *)

\* The tokens that are no NewLine, in order
RECURSIVE WithoutNewLines(_)
WithoutNewLines(toks) ==
    IF toks = <<>> THEN <<>>
    ELSE IF Head(toks).kind = "NewLine" THEN WithoutNewLines(Tail(toks))
    ELSE <<Head(toks)>> \o WithoutNewLines(Tail(toks))

KindAt(toks, p) == IF p \in 1..Len(toks) THEN toks[p].kind ELSE "End"

\* The positions just after an element that begins at p:
\* Word : Word, or Word : [ Word ; (Word | Integer) ]
ElementEnds(toks, p) ==
    IF KindAt(toks, p) = "Word" /\ KindAt(toks, p + 1) = "Colon"
    THEN IF KindAt(toks, p + 2) = "Word" THEN {p + 3}
         ELSE IF /\ KindAt(toks, p + 2) = "OpenBracket"
                 /\ KindAt(toks, p + 3) = "Word"
                 /\ KindAt(toks, p + 4) = "Semicolon"
                 /\ KindAt(toks, p + 5) \in {"Word", "Integer"}
                 /\ KindAt(toks, p + 6) = "CloseBracket"
         THEN {p + 7}
         ELSE {}
    ELSE {}

\* The positions just after element { , element } beginning at p
RECURSIVE ElementListEnds(_, _)
ElementListEnds(toks, p) ==
    UNION {{q} \cup (IF KindAt(toks, q) = "Comma" THEN ElementListEnds(toks, q + 1) ELSE {}) :
              q \in ElementEnds(toks, p)}

\* The positions just after [ element { , element } [ , ] ] beginning at p
BodyEnds(toks, p) ==
    LET ends == ElementListEnds(toks, p)
    IN  {p} \cup ends \cup {q + 1 : q \in {e \in ends : KindAt(toks, e) = "Comma"}}

\* The positions just after Word(struct) Word { body } beginning at p
StructEnds(toks, p) ==
    IF /\ KindAt(toks, p) = "Word"
       /\ toks[p].sval = kw_struct
       /\ KindAt(toks, p + 1) = "Word"
       /\ KindAt(toks, p + 2) = "OpenBrace"
    THEN {q + 1 : q \in {e \in BodyEnds(toks, p + 3) : KindAt(toks, e) = "CloseBrace"}}
    ELSE {}

\* toks from p on is a (possibly empty) sequence of structs
RECURSIVE IsStructs(_, _)
IsStructs(toks, p) ==
    \/ p = Len(toks) + 1
    \/ \E q \in StructEnds(toks, p) : IsStructs(toks, q)

ParseSucceeded == pc = "build_structs_map"

\* C21: the parser succeeds on a token sequence exactly when the sequence,
\* its NewLine tokens removed, is a sequence of structs
\* Word(struct) Word { [ element { , element } [ , ] ] }.
C21_Grammar ==
    pc # "parse" => (ParseSucceeded <=> IsStructs(WithoutNewLines(tokens), 1))

HasPair(toks, first, second) ==
    \E i \in 1..(Len(toks) - 1) : toks[i].kind = first /\ toks[i + 1].kind = second

\* a struct with an empty body and a struct with a trailing comma were parsed
C21_Witness ==
    /\ ParseSucceeded
    /\ HasPair(WithoutNewLines(tokens), "OpenBrace", "CloseBrace")
    /\ HasPair(WithoutNewLines(tokens), "Comma", "CloseBrace")

\* two consecutive commas were refused
C21_WitnessCommas ==
    /\ pc = "done"
    /\ tok_pos >= 1
    /\ tok_pos < Len(tokens)
    /\ tokens[tok_pos].kind = "Comma"
    /\ tokens[tok_pos + 1].kind = "Comma"

\* a nested array was refused
C21_WitnessNested ==
    /\ pc = "done"
    /\ tok_pos >= 1
    /\ tok_pos < Len(tokens)
    /\ tokens[tok_pos].kind = "OpenBracket"
    /\ tokens[tok_pos + 1].kind = "OpenBracket"

\* C22: when the tokens are exhausted the parse succeeds if and only if the
\* parser is in its Empty state; in a StructState or an ArrayState the result
\* is the error IncompleteInput, whatever structs were completed before.
C22_Eof ==
    (pc # "parse" /\ tok_pos = Len(tokens)) =>
        IF parse_state.st = "Empty"
        THEN ParseSucceeded /\ result = NoResult
        ELSE /\ pc = "done"
             /\ result.status = "err"
             /\ result.err.code = "IncompleteInput"

\* the tokens ran out inside an array, after a struct had been completed
C22_Witness ==
    /\ pc = "done"
    /\ tok_pos = Len(tokens)
    /\ parse_state.st = "Array"
    /\ schema # <<>>
    /\ result.err.code = "IncompleteInput"

\* the tokens ran out at file scope, after a struct
C22_WitnessEmpty ==
    /\ ParseSucceeded
    /\ tok_pos = Len(tokens)
    /\ schema # <<>>

\* The tokens consumed so far that are no NewLine
Seen == WithoutNewLines(SubSeq(tokens, 1, tok_pos))

\* The kind of the k-th last token seen; "End" before the first struct and
\* after a closing brace, so that "End" stands for file scope
SeenKind(k) ==
    IF k > Len(Seen) \/ Seen[Len(Seen) + 1 - k].kind = "CloseBrace"
    THEN "End"
    ELSE Seen[Len(Seen) + 1 - k].kind

\* What is due after the tokens seen, told from the tokens alone; "other" inside
\* the brackets of an array
ExpectedAfterSeen ==
    CASE SeenKind(1) = "End" -> <<"<keyword>">>
      [] SeenKind(1) = "Word" /\ SeenKind(2) = "End" -> <<"<name>">>
      [] SeenKind(1) = "Word" /\ SeenKind(2) = "Word" /\ SeenKind(3) = "End" -> <<"{">>
      [] SeenKind(1) \in {"OpenBrace", "Comma"} -> <<"}">>
      [] SeenKind(1) = "Word" /\ SeenKind(2) \in {"OpenBrace", "Comma"} -> <<":">>
      [] SeenKind(1) = "Colon" -> <<"<typename>">>
      [] SeenKind(1) = "Word" /\ SeenKind(2) = "Colon" -> <<",">>
      [] SeenKind(1) = "CloseBracket" -> <<",">>
      [] OTHER -> <<"other">>

\* The parser stopped at a token it did not accept
TokenRefused == pc = "done" /\ tok_pos < Len(tokens)

\* C23: at the first token the parser does not accept, parsing stops with
\* ParseError(expected, got) on that token's line, got being the token's text
\* and expected being <keyword> at file scope, <name> after struct, { after the
\* struct name, } where an element name or the close is due, : after an element
\* name, <typename> after the colon and , after a complete element.
C23_ParseError ==
    TokenRefused =>
        LET t == tokens[tok_pos + 1]
        IN  /\ result.status = "err"
            /\ result.err.code = "ParseError"
            /\ result.err.line_no = t.line_no
            /\ result.err.args[2] = (IF t.is_int THEN NatToString(t.ival) ELSE t.sval)
            /\ ExpectedAfterSeen # <<"other">> => result.err.args[1] = ExpectedAfterSeen

\* a name that is no keyword was refused at file scope, after a struct, on a
\* later line
C23_Witness ==
    /\ TokenRefused
    /\ schema # <<>>
    /\ tokens[tok_pos + 1].kind = "Word"
    /\ tokens[tok_pos + 1].line_no > 1
    /\ result.err.args[1] = <<"<keyword>">>

\* an Integer was refused where a comma was due after an array
C23_WitnessComma ==
    /\ TokenRefused
    /\ tokens[tok_pos + 1].kind = "Integer"
    /\ SeenKind(1) = "CloseBracket"
    /\ result.err.args = << <<",">>, <<"2">> >>

\* The positions in toks of the closing braces, in order
ClosePositions(toks) ==
    LET closes == {i \in 1..Len(toks) : toks[i].kind = "CloseBrace"}
    IN  [k \in 1..Cardinality(closes) |->
            CHOOSE i \in closes : Cardinality({j \in closes : j <= i}) = k]

\* The tokens of the k-th struct: after the closing brace before, up to its own
StructSegment(toks, k) ==
    LET closes == ClosePositions(toks)
    IN  SubSeq(toks, IF k = 1 THEN 1 ELSE closes[k - 1] + 1, closes[k])

\* The element written around the colon at position c of a struct's tokens
ElementAtColon(seg, c) ==
    [name |-> seg[c - 1].sval,
     kind |-> IF seg[c + 1].kind = "Word"
              THEN TypeName(seg[c + 1].sval)
              ELSE ArrayElem(seg[c + 2].sval,
                             IF seg[c + 4].is_int
                             THEN Static(seg[c + 4].ival)
                             ELSE Identifier(seg[c + 4].sval))]

\* The struct written by the tokens seg: its name after the keyword, its
\* elements in the order of their colons
StructWritten(seg) ==
    LET colons == {i \in 1..Len(seg) : seg[i].kind = "Colon"}
        nth(j) == CHOOSE c \in colons : Cardinality({d \in colons : d <= c}) = j
    IN  [name |-> seg[2].sval,
         elements |-> [j \in 1..Cardinality(colons) |-> ElementAtColon(seg, nth(j))]]

\* A StructDefn without the line numbers
StructRead(s) ==
    [name |-> s.name,
     elements |-> [j \in 1..Len(s.elements) |->
                      [name |-> s.elements[j].name, kind |-> s.elements[j].kind]]]

\* The Schema holds the structs closed so far, in the order of their closing
\* braces, each as it is written
SchemaAsWritten ==
    /\ Len(schema) = Len(ClosePositions(Seen))
    /\ \A k \in 1..Len(schema) : StructRead(schema[k]) = StructWritten(StructSegment(Seen, k))

\* A step changes the Schema only by appending one struct, and does so exactly
\* when it consumes a closing brace
AppendAtClose ==
    LET closing == /\ pc = "parse"
                   /\ tok_pos' = tok_pos + 1
                   /\ tokens[tok_pos + 1].kind = "CloseBrace"
    IN  IF closing
        THEN /\ Len(schema') = Len(schema) + 1
             /\ SubSeq(schema', 1, Len(schema)) = schema
        ELSE schema' = schema

\* C24: the Schema lists the structs in the order of their closing braces, each
\* with its elements in source order under the names written before the
\* colons; a struct is appended exactly once, when its closing brace is
\* consumed, and the structs appended before are never changed.
C24_SchemaOrder == [](pc \in {"parse", "build_structs_map", "done"} => SchemaAsWritten) /\ [][AppendAtClose]_vars

\* two structs were parsed, the second with a plain element and an array
C24_Witness ==
    /\ ParseSucceeded
    /\ Len(schema) = 2
    /\ schema[1].name = name_a
    /\ schema[2].name = root
    /\ Len(schema[1].elements) = 1
    /\ Len(schema[2].elements) = 2
    /\ schema[2].elements[1].kind = TypeName(name_a)
    /\ schema[2].elements[2].kind = ArrayElem(name_b, Static(2))

---------------------------------------------------------------------------
(* Properties of tokeniser and parser together *)

WordChars == AsciiLetters \cup DigitChars \cup {"_"}

\* The number of consecutive letters, digits and underscores of text from p on
RECURSIVE WordRun(_, _)
WordRun(text, p) ==
    IF p < 1 \/ p > Len(text) THEN 0
    ELSE IF text[p] \notin WordChars THEN 0
    ELSE 1 + WordRun(text, p + 1)

\* The positions of text where a name that begins with a digit begins: a
\* digit 1-9 that continues no name or number, with a letter right behind its
\* digits
DigitNamePositions(text) ==
    {p \in 1..Len(text) :
        /\ text[p] \in DigitChars \ {"0"}
        /\ p > 1 => text[p - 1] \notin WordChars
        /\ p + DigitRun(text, p) <= Len(text)
        /\ text[p + DigitRun(text, p)] \in AsciiLetters}

\* C29: text that begins with a digit 1-9 followed directly by letters is
\* tokenised without error as two tokens, an Integer and then a Word; where the
\* grammar wants an identifier the parser then refuses it with a ParseError.
C29_DigitName ==
    \A p \in DigitNamePositions(src_data) :
        pc # "tokenise" =>
            LET q == p + DigitRun(src_data, p)
            IN  /\ pc = "parse" \/ Failed("ParseError")
                /\ \E j \in 1..(Len(tokens) - 1) :
                      /\ tok_starts[j] = p
                      /\ tokens[j].kind = "Integer"
                      /\ tokens[j].ival = DecimalValue(SubSeq(src_data, p, q - 1))
                      /\ tok_starts[j + 1] = q
                      /\ tokens[j + 1].kind = "Word"
                      /\ tokens[j + 1].sval =
                             SubSeq(src_data, q, q + WordRun(src_data, q) - 1)
                      /\ pc # "parse" => tok_pos + 1 \in {j, j + 1}

\* 12Z was written for the name of a struct: the parser refused the Integer 12
C29_Witness ==
    /\ Failed("ParseError")
    /\ DigitNamePositions(src_data) = {8}
    /\ tokens[2].kind = "Integer"
    /\ tokens[2].ival = 12
    /\ tokens[3] = StringToken("Word", <<"Z">>, 1)
    /\ tok_pos = 1
    /\ result.err.args = << <<"<name>">>, <<"1", "2">> >>

\* 1abc was written for the length of an array: the parser took the Integer 1
\* for the length and refused the Word abc
C29_WitnessLength ==
    /\ Failed("ParseError")
    /\ DigitNamePositions(src_data) # {}
    /\ parse_state.st = "Array"
    /\ tokens[tok_pos].kind = "Integer"
    /\ tokens[tok_pos + 1].sval = <<"a", "b", "c">>
    /\ result.err.args = << <<"]">>, <<"a", "b", "c">> >>

---------------------------------------------------------------------------
(* Reconstruction of a text from its tokens *)

\* The texts of the tokens, in order, with one space between two of them
RECURSIVE Reconstruct(_)
Reconstruct(toks) ==
    IF toks = <<>> THEN <<>>
    ELSE IF Len(toks) = 1 THEN get_string(toks[1])
    ELSE get_string(toks[1]) \o <<" ">> \o Reconstruct(Tail(toks))

\* The kinds and values of tokens, without their lines
KindsAndValues(toks) ==
    [i \in 1..Len(toks) |->
        [kind |-> toks[i].kind, is_int |-> toks[i].is_int,
         sval |-> toks[i].sval, ival |-> toks[i].ival]]

Tokenised == pc = "parse"

\* C30: for every input that tokenises successfully, writing each token's text
\* (the text of a Word, the punctuation character, an Integer in decimal, a
\* newline) with single spaces between and tokenising that text again yields
\* the same sequence of token kinds and values.
C30_Reconstruction ==
    Tokenised =>
        LET again == Tokeniser_new(Reconstruct(tokens))
        IN  /\ again.ok
            /\ KindsAndValues(again.toks) = KindsAndValues(tokens)

\* an Integer, a NewLine and a Word were written out and read again, from a
\* text that is not its own reconstruction
C30_Witness ==
    /\ Tokenised
    /\ Len(tokens) = 3
    /\ tokens[1].kind = "Integer"
    /\ tokens[2].kind = "NewLine"
    /\ tokens[3].kind = "Word"
    /\ Reconstruct(tokens) # src_data
    /\ Len(Reconstruct(tokens)) = 5

\* a Word of more than one character and punctuation behind it, read from a
\* text with a comment
C30_WitnessComment ==
    /\ Tokenised
    /\ Len(src_data) = MaxCommentLen
    /\ Len(tokens) = 2
    /\ tokens[1].kind = "Word"
    /\ tokens[2].kind = "NewLine"

---------------------------------------------------------------------------
(* Properties of the name lookups of apply *)

\* Every type name a struct map mentions, in a plain element or as the kind of
\* an array, is a built-in or a key of the map.
TypeNamesBound(map) ==
    \A s \in DOMAIN map : \A j \in 1..Len(map[s].elements) :
        \/ is_builtin_type(map[s].elements[j].kind.kind)
        \/ map[s].elements[j].kind.kind \in DOMAIN map

\* Every array length identifier names an earlier element of the same struct,
\* and the first element of that name is a built-in integer.
LengthsBound(map) ==
    \A s \in DOMAIN map : \A j \in 1..Len(map[s].elements) :
        LET e == map[s].elements[j]
        IN  (e.kind.tag = "ArrayElem" /\ e.kind.length.tag = "Identifier") =>
                \E i \in 1..(j - 1) :
                    /\ map[s].elements[i].name = e.kind.length.id
                    /\ \A h \in 1..(i - 1) : map[s].elements[h].name # e.kind.length.id
                    /\ map[s].elements[i].kind.tag = "TypeName"
                    /\ is_type_class(map[s].elements[i].kind.kind, "Integer")

LookupPanics == {"NoRoot", "NoType", "NoSibling", "NoValue"}

\* C31: for every compiled schema and every byte array, no name lookup of the
\* applier fails: the struct map holds root and every non-built-in type name
\* it mentions, every array length names an earlier sibling that carries a
\* value, and apply never panics in a lookup.
C31_LookupsSucceed ==
    /\ Compiled => /\ root \in DOMAIN types_map
                   /\ TypeNamesBound(types_map)
                   /\ LengthsBound(types_map)
    /\ pc = "applied" => /\ root \in DOMAIN types_map
                         /\ TypeNamesBound(types_map)
                         /\ LengthsBound(types_map)
                         /\ applied.why \notin LookupPanics

\* root {n: uint8, n: a, y: [uint8; n]} applied: the three lookups all happen
C31_Witness ==
    /\ Applied
    /\ Len(types_map[root].elements) = 3
    /\ types_map[root].elements[1].kind = TypeName(uint8)
    /\ types_map[root].elements[2].kind = TypeName(name_a)
    /\ types_map[root].elements[3].kind = ArrayElem(uint8, Identifier(name_n))
    /\ Len(applied.nugget.children[3].children) = 2

---------------------------------------------------------------------------
(* Properties of apply on short input *)

\* The bytes the first k elements of root take when all are built-ins or the
\* empty struct a.
RECURSIVE RootNeed(_)
RootNeed(k) ==
    IF k = 0 THEN 0
    ELSE LET name == schema[1].elements[k].kind.kind
         IN  RootNeed(k - 1) + (IF name \in BuiltinNames THEN SizeByName(name) ELSE 0)

\* C32: when a primitive is to be decoded and fewer bytes remain than its
\* size, apply fails as a whole and returns no Nugget, in particular when the
\* decode starts at the end of the input; apply succeeds exactly if the input
\* holds the bytes of all elements, and then every decode lies inside the input.
C32_ShortInput ==
    pc = "applied" =>
        LET elements == schema[1].elements
        IN  /\ applied.status = "ok" <=> RootNeed(Len(elements)) <= Len(file_data)
            /\ applied.status # "ok" =>
                  /\ applied.status = "panic"
                  /\ applied.why = "Truncated"
                  /\ applied.nugget = NoNugget
            /\ \A k \in 1..Len(elements) :
                  (/\ elements[k].kind.kind \in BuiltinNames
                   /\ RootNeed(k - 1) = Len(file_data)) => applied.status = "panic"
            /\ applied.status = "ok" =>
                  \A k \in 1..Len(elements) :
                      /\ applied.nugget.children[k].start = RootNeed(k - 1)
                      /\ applied.nugget.children[k].start + applied.nugget.children[k].len
                             <= Len(file_data)

\* an int64 was decoded from 9 bytes and the 2-byte element behind it, of
\* which one byte is there, made apply fail
C32_Witness ==
    /\ pc = "applied"
    /\ applied.status = "panic"
    /\ applied.nugget = NoNugget
    /\ Len(file_data) = 9
    /\ schema[1].elements[1].kind.kind = int64_le
    /\ schema[1].elements[2].kind.kind = uint16_be

\* the decode of the second element began at the end of a file of one byte
C32_WitnessAtEnd ==
    /\ pc = "applied"
    /\ applied.status = "panic"
    /\ Len(file_data) = 1
    /\ schema[1].elements[1].kind.kind = ascii
    /\ schema[1].elements[2].kind.kind = f64_be

---------------------------------------------------------------------------
(* Termination of apply *)

\* The struct names build_nugget(name) calls build_nugget for: the kinds of
\* the plain elements and of the arrays of name that are structs.
Callees(map, name) ==
    {map[name].elements[j].kind.kind : j \in 1..Len(map[name].elements)}
        \cap DOMAIN map

\* Some chain of nested build_nugget calls that starts at name, with the
\* calls of visited open, comes to a struct whose call is still open.
RECURSIVE ChainRevisits(_, _, _)
ChainRevisits(map, name, visited) ==
    \/ name \in visited
    \/ \E callee \in Callees(map, name) :
          ChainRevisits(map, callee, visited \cup {name})

\* The length of the longest chain of nested calls from name that visits no
\* struct twice.
RECURSIVE ChainDepth(_, _, _)
ChainDepth(map, name, visited) ==
    IF name \in visited THEN 0
    ELSE LET below == {ChainDepth(map, callee, visited \cup {name}) :
                           callee \in Callees(map, name)}
         IN  1 + (IF below = {} THEN 0
                  ELSE CHOOSE d \in below : \A other \in below : other <= d)

\* C33: for every schema that passed the checks and every byte array, apply
\* terminates: no chain of nested build_nugget calls visits a struct name
\* twice, the chains are no deeper than the number of structs, and the call
\* returns a tree or panics on each input.
C33_ApplyTerminates ==
    pc \in {"applied"} \cup (IF Compiled THEN {"done"} ELSE {}) =>
        /\ \A name \in DOMAIN types_map : ~ChainRevisits(types_map, name, {})
        /\ ChainDepth(types_map, root, {}) <= Cardinality(DOMAIN types_map)
        /\ pc = "done" =>
              \A data \in FileInputs(schema) :
                  apply_schema(types_map, data).ok \in BOOLEAN
        /\ pc = "applied" => applied.status \in {"ok", "panic"}

\* root holds an array of a and a plain a; the chain root, a was walked and
\* apply returned
C33_Witness ==
    /\ Applied
    /\ ChainDepth(types_map, root, {}) = 2
    /\ \E j \in 1..Len(types_map[root].elements) :
          /\ types_map[root].elements[j].kind.tag = "ArrayElem"
          /\ types_map[root].elements[j].kind.kind = name_a
          /\ Len(applied.nugget.children[j].children) = 2

---------------------------------------------------------------------------
(* Termination of the worklist loop of check_types_no_loops *)

\* The pops that one entry name of the stack can still cause: its own, and
\* those of every parent registered for it that can become resolved (is in
\* able), once for each time the parent is registered.
RECURSIVE PushWeight(_, _, _)
RECURSIVE ParentsWeight(_, _, _, _)
ParentsWeight(able, dependants, parents, i) ==
    IF i > Len(parents) THEN 0
    ELSE (IF parents[i] \in able
          THEN PushWeight(able, dependants, parents[i])
          ELSE 0) + ParentsWeight(able, dependants, parents, i + 1)

PushWeight(able, dependants, name) ==
    1 + (IF name \in DOMAIN dependants
         THEN ParentsWeight(able, dependants, dependants[name], 1)
         ELSE 0)

RECURSIVE StackWeight(_, _, _)
StackWeight(able, dependants, stack) ==
    IF stack = <<>> THEN 0
    ELSE PushWeight(able, dependants, Head(stack))
             + StackWeight(able, dependants, Tail(stack))

\* The state of the loop after the iteration that is due.
AfterPop ==
    LET kind_name == types_stack[Len(types_stack)]
        popped == SubSeq(types_stack, 1, Len(types_stack) - 1)
    IN  IF kind_name \in DOMAIN dependant_types
        THEN check_parents_from(types_map, dependant_types[kind_name], 1,
                 ScanState(types_resolved, dependant_types, popped))
        ELSE ScanState(types_resolved, dependant_types, popped)

\* An iteration of the loop leaves the state that AfterPop gives and lowers
\* the weight of the stack.
PopLowersWeight ==
    (pc = "worklist" /\ pc' = "worklist") =>
        LET able == Resolvable(types_map, {})
        IN  /\ types_stack' = AfterPop.stack
            /\ types_resolved' = AfterPop.resolved
            /\ StackWeight(able, dependant_types', types_stack')
                   < StackWeight(able, dependant_types, types_stack)

\* In the loop the stack holds resolved names only, no struct on or behind a
\* cycle is resolved, and the iteration that is due changes the state.
WorklistSound ==
    pc = "worklist" =>
        LET able == Resolvable(types_map, {})
        IN  /\ \A i \in 1..Len(types_stack) : types_stack[i] \in types_resolved
            /\ types_resolved \subseteq able
            /\ types_stack # <<>> =>
                  StackWeight(able, dependant_types, AfterPop.stack)
                      < StackWeight(able, dependant_types, types_stack)

\* C34: the worklist loop of the cycle detection terminates for every schema
\* whose types are all defined, with a struct registered several times for
\* one type and pushed more than once and with cycles among the structs:
\* every iteration lowers a natural-number weight of the stack, and a name is
\* on the stack only after it was added to the resolved set.
C34_WorklistTerminates == []WorklistSound /\ [][PopLowersWeight]_vars

\* a struct that names one type in two elements is on the stack twice
C34_Witness ==
    /\ pc = "worklist"
    /\ \E i, j \in 1..Len(types_stack) :
          /\ i < j
          /\ types_stack[i] = types_stack[j]
          /\ Len(types_map[types_stack[i]].elements) = 2
          /\ types_map[types_stack[i]].elements[1].kind.kind
                 = types_map[types_stack[i]].elements[2].kind.kind

\* the loop ran dry on a schema with a cycle
C34_WitnessCycle ==
    /\ pc = "worklist"
    /\ types_stack = <<>>
    /\ types_resolved # {}
    /\ Unresolvable(types_map) # {}
    /\ \E name \in DOMAIN dependant_types : dependant_types[name] # <<>>

---------------------------------------------------------------------------
(* Cycle detection and the iteration order of the struct map *)

\* The worklist loop run from the scan state st until the stack is empty.
RECURSIVE RunWorklist(_, _)
RunWorklist(map, st) ==
    IF st.stack = <<>> THEN st
    ELSE LET kind_name == st.stack[Len(st.stack)]
             popped == SubSeq(st.stack, 1, Len(st.stack) - 1)
         IN  RunWorklist(map,
                 IF kind_name \in DOMAIN st.dependants
                 THEN check_parents_from(map, st.dependants[kind_name], 1,
                          ScanState(st.resolved, st.dependants, popped))
                 ELSE ScanState(st.resolved, st.dependants, popped))

\* The resolved set check_types_no_loops ends with when its first loop
\* iterates in order.
ResolvedUnder(map, order) == RunWorklist(map, first_scan(map, order)).resolved

\* What a caller sees of the outcome of check_types_no_loops.
Outcome(r) ==
    [ok |-> r.ok, code |-> r.err.code, line_no |-> r.err.line_no,
     names |-> Range(r.err.args)]

\* The resolved sets the loops can end with, over the orders of the first scan.
ResolvedSets(map) == {ResolvedUnder(map, o) : o \in Orders(DOMAIN map)}

\* The outcomes of check_types_no_loops over the orders of its first and of its
\* last loop.
Outcomes(map) ==
    {Outcome(check_types_no_loops_result(map, c, resolved)) :
        c \in Orders(DOMAIN map), resolved \in ResolvedSets(map)}

\* C35: the outcome of the cycle detection does not depend on the iteration
\* order of the struct map: all orders of the first scan end with the same
\* resolved set, hence with the same success or failure, the same set of names
\* in RecursiveTypes and the same line; the run at hand ends with that set and
\* that outcome.
C35_OrderIndependent ==
    /\ pc = "first_scan" =>
          /\ Cardinality(ResolvedSets(types_map)) = 1
          /\ Cardinality(Outcomes(types_map)) = 1
    /\ (pc = "worklist" /\ types_stack = <<>>) =>
          ResolvedSets(types_map) = {types_resolved}
    /\ Failed("RecursiveTypes") =>
          Outcomes(types_map) = {Outcome(Err(result.err))}
    /\ (pc \in {"check_root_element", "check_array_lengths"} \/ Compiled) =>
          Outcomes(types_map) = {Outcome(Ok(<<>>))}

\* a struct on a cycle, and a struct that one order of the first scan resolves
\* in the scan and another leaves to the worklist
C35_Witness ==
    /\ Failed("RecursiveTypes")
    /\ Cardinality(DOMAIN types_map) = 3
    /\ \E parent \in types_resolved :
          \E m \in 1..Len(types_map[parent].elements) :
              types_map[parent].elements[m].kind.kind \in types_resolved

---------------------------------------------------------------------------
(* The error of compile_schema and the iteration order of the struct map *)

\* What a caller sees of an error.
ErrorSeen(r) == [ok |-> r.ok, code |-> r.err.code, line_no |-> r.err.line_no,
                 names |-> r.err.args]

\* The results of the unknown-type check over the iteration orders.
UnknownTypeResults ==
    {ErrorSeen(check_all_types_defined(types_map, o)) : o \in Orders(DOMAIN types_map)}

\* The results of the array-length check over the iteration orders.
ArrayLengthResults ==
    {ErrorSeen(check_array_lengths(types_map, o)) : o \in Orders(DOMAIN types_map)}

\* C36: compile_schema returns the same error code, names and line for one
\* source text whatever the iteration order of the unknown-type check and of
\* the array-length check.
C36_ErrorDeterministic ==
    /\ pc = "check_all_types_defined" => Cardinality(UnknownTypeResults) = 1
    /\ pc = "check_array_lengths" => Cardinality(ArrayLengthResults) = 1

---------------------------------------------------------------------------
(* The array length as the checker and as the applier find it *)

\* The element of struct_defn that check_array_elem looks at for the array at
\* position j: the first one before j that has the name of the length.
CheckedSibling(struct_defn, j) ==
    Min({i \in 1..(j - 1) :
            struct_defn.elements[i].name = struct_defn.elements[j].kind.length.id})

\* The positions of the arrays of root whose length is an identifier.
SizedArrays ==
    {j \in 1..Len(types_map[root].elements) :
        /\ types_map[root].elements[j].kind.tag = "ArrayElem"
        /\ types_map[root].elements[j].kind.length.tag = "Identifier"}

\* C37: when several elements before an array have the name of its length,
\* the checker and the applier take the same one, the first: the element the
\* checker found to be a built-in integer is the sibling whose value the
\* applier reads as the number of children of the array.
C37_SameSibling ==
    Applied =>
        \A j \in SizedArrays :
            LET i == CheckedSibling(types_map[root], j)
                checked == types_map[root].elements[i]
                sibling == applied.nugget.children[i]
            IN  /\ checked.kind.tag = "TypeName"
                /\ is_type_class(checked.kind.kind, "Integer")
                /\ sibling.name = checked.name
                /\ sibling.value.some
                /\ ParseUsize(sibling.value.val).ok
                /\ Len(applied.nugget.children[j].children)
                       = ParseUsize(sibling.value.val).n

\* n: uint8 holds 1 and n: uint16_le holds 2; the array y has one child
C37_Witness ==
    /\ Applied
    /\ Len(types_map[root].elements) = 3
    /\ types_map[root].elements[1].kind = TypeName(uint8)
    /\ types_map[root].elements[2].kind = TypeName(uint16_le)
    /\ SizedArrays = {3}
    /\ applied.nugget.children[1].value = Some(<<"1">>)
    /\ applied.nugget.children[2].value = Some(<<"2">>)
    /\ Len(applied.nugget.children[3].children) = 1

---------------------------------------------------------------------------
(* The unwraps of the parser *)

\* The parser state is Empty, a StructState, or an ArrayState that holds one
\* parent StructState in substate ChildKind.
ParserStateShape ==
    /\ parse_state.st \in {"Empty", "Struct", "Array"}
    /\ parse_state.st = "Empty" => parse_state = ParserEmptyState
    /\ parse_state.st = "Struct" =>
          /\ parse_state.sub \in {"Begin", "Name", "OpenBrace", "ChildName",
                                  "ChildTypeOf", "ChildKind"}
          /\ ~parse_state.kind.some /\ ~parse_state.length.some
    /\ parse_state.st = "Array" =>
          /\ parse_state.sub = "ChildKind"
          /\ parse_state.asub \in {"Begin", "Kind", "Semicolon", "Length"}

\* Where a token can make the parser unwrap an Option, the Option is Some:
\* the struct name where } closes the struct, the pending child name where a
\* type name or a ] completes an element, kind and length where ] closes the
\* array.
UnwrapsSafe ==
    /\ (parse_state.st = "Struct" /\ parse_state.sub \in {"OpenBrace", "ChildKind"})
          => parse_state.name.some
    /\ (parse_state.st = "Struct" /\ parse_state.sub = "ChildTypeOf")
          => parse_state.new_child_name.some
    /\ parse_state.st = "Array" =>
          /\ parse_state.name.some
          /\ parse_state.new_child_name.some
          /\ parse_state.asub = "Length" =>
                (parse_state.kind.some /\ parse_state.length.some)

\* get_int is called on Integer tokens only (the length of an array), and
\* the tokeniser gives every Integer token an integer value, every other
\* token a string.
IntegersCarryInt ==
    \A i \in 1..Len(tokens) : tokens[i].is_int <=> tokens[i].kind = "Integer"

\* C38: the parser does not panic on any token sequence of the tokeniser:
\* every unwrap finds its value, get_int meets integer values only, and the
\* parser state is Empty, a StructState or an ArrayState with one parent
\* StructState in substate ChildKind.
C38_ParserTotal == ParserStateShape /\ UnwrapsSafe /\ IntegersCarryInt

\* an array of static length was closed and appended to its parent
C38_Witness ==
    /\ pc = "parse"
    /\ tok_pos > 0
    /\ tokens[tok_pos].kind = "CloseBracket"
    /\ parse_state.st = "Struct"
    /\ parse_state.sub = "ChildKind"
    /\ Len(parse_state.complete_children) = 2
    /\ parse_state.complete_children[2].kind = ArrayElem(uint8, Static(2))
    /\ ~parse_state.new_child_name.some

\* the parser is inside an array, behind its length
C38_WitnessArray ==
    /\ pc = "parse"
    /\ parse_state.st = "Array"
    /\ parse_state.asub = "Length"
    /\ parse_state.length = SomeLen(Static(7))

---------------------------------------------------------------------------
(* A slash that starts no comment *)

\* The tokeniser is in CommentState exactly behind a slash that was read
\* outside of comments.
BehindSlash ==
    (pc = "tokenise" /\ tok_state.st = "Comment") =>
        (src_pos >= 1 /\ src_data[src_pos] = "/")

\* The end of the input in CommentState: success, with the tokens as they are.
SlashThenEof ==
    (pc = "tokenise" /\ tok_state.st = "Comment" /\ src_pos = Len(src_data)) =>
        /\ pc' = "parse"
        /\ tokens' = tokens
        /\ result' = NoResult

\* A character other than / and * in CommentState: UnexpectedSymbol.
SlashThenOther ==
    (/\ pc = "tokenise"
     /\ tok_state.st = "Comment"
     /\ src_pos < Len(src_data)
     /\ src_data[src_pos + 1] \notin {"/", "*"}) =>
        /\ pc' = "done"
        /\ result'.status = "err"
        /\ result'.err.code = "UnexpectedSymbol"
        /\ result'.err.args = << <<"* or /">>, <<src_data[src_pos + 1]>> >>

\* C39: when the input ends right behind a single slash, tokenising succeeds
\* and returns the tokens emitted so far, with nothing for the slash; a slash
\* followed by a character other than / and * gives UnexpectedSymbol with
\* "* or /" and that character.
C39_LoneSlash == []BehindSlash /\ [][SlashThenEof /\ SlashThenOther]_vars

\* the text a/ was tokenised to the one Word a
C39_Witness ==
    /\ pc = "parse"
    /\ src_data = <<"a", "/">>
    /\ Len(tokens) = 1
    /\ tokens[1].kind = "Word"

\* the text /: was refused
C39_WitnessOther ==
    /\ pc = "done"
    /\ src_data = <<"/", ":">>
    /\ result.err.code = "UnexpectedSymbol"

---------------------------------------------------------------------------
(* The static array lengths of a parsed schema *)

\* The greatest integer of nine digits.
IntegerMax == 999999999

\* The static array lengths in structs.
StaticLengths(structs) ==
    UNION {{structs[i].elements[j].kind.length.n :
               j \in {k \in 1..Len(structs[i].elements) :
                         /\ structs[i].elements[k].kind.tag = "ArrayElem"
                         /\ structs[i].elements[k].kind.length.tag = "Static"}} :
           i \in 1..Len(structs)}

\* C40: every static array length of a schema that tokenise and parse produce
\* lies in 1..999999999, as does every Integer token and the length the parser
\* holds inside an array; the literal 0 as a length is refused by the
\* tokeniser with LeadingZero and ten digits with IntegerTooLarge.
C40_StaticRange ==
    /\ \A i \in 1..Len(tokens) :
          tokens[i].kind = "Integer" => tokens[i].ival \in 1..IntegerMax
    /\ (parse_state.length.some /\ parse_state.length.val.tag = "Static")
          => parse_state.length.val.n \in 1..IntegerMax
    /\ StaticLengths(schema) \subseteq 1..IntegerMax
    /\ (pc # "tokenise" /\ src_data \in {Spell(LenBase(<<"0">>)),
                                        Spell(LenBase(<<"0", "1">>))})
          => Failed("LeadingZero")
    /\ (pc # "tokenise"
            /\ src_data = Spell(LenBase(<<"1", "0", "0", "0", "0", "0", "0", "0", "0", "0">>)))
          => Failed("IntegerTooLarge")

\* the greatest length was written and stands in the schema
C40_Witness ==
    /\ pc = "build_structs_map"
    /\ StaticLengths(schema) = {IntegerMax}

\* the length 0 was written and refused
C40_WitnessZero ==
    /\ Failed("LeadingZero")
    /\ src_data = Spell(LenBase(<<"0">>))

=============================================================================
